---- MODULE Spec2Model ----
(***************************************************************************)
(* Model of the game engine parts of planar-nexus.                         *)
(*                                                                         *)
(* The replay buffer (src/unnamed/part_013, class ReplayBuffer): the       *)
(* bounded list of buffered actions, the cursor currentIndex, the playback *)
(* state machine, the interval timers created by startPlayback, the event  *)
(* log and the late-join validation.                                       *)
(* Mana payment (src/lib/game-state/mana-payment.ts): parseManaCost,       *)
(* getManaSources, autoTapLands and calculateRemainingPool, as operators   *)
(* that compute what the functions compute, the mutation of an argument    *)
(* included.                                                               *)
(* The auto-save lifecycle (src/components/stack-display.tsx, class        *)
(* AutoSaveGameLifecycle): the handlers and the calls they make.           *)
(* The wrappers withAutoSaveAfter and withAutoSaveBefore of the same file, *)
(* step by step from one await to the next.                                *)
(* The stack: the StackItem[] that StackDisplay of the same file renders,  *)
(* with the push and resolve of the game-state module.                     *)
(* Turn order: the Turn functions of turn-phases.ts, which the repository  *)
(* describes in src/unnamed/part_000, and advanceTurn of the game board    *)
(* page.                                                                   *)
(* Each part has its own specification; the variables of the other parts   *)
(* stay as they start.                                                     *)
(*                                                                         *)
(* Conventions.  Indices are the program's 0-based indices; the action at  *)
(* index i is actions[i + 1].  An optional value (an omitted argument, the *)
(* field playbackInterval) is a sequence of length at most one: << >> is   *)
(* undefined, <<v>> is the value v.  Timestamps (receivedAt, appliedAt,    *)
(* event.timestamp, startTimestamp) are values of Date.now() that no       *)
(* branch of the modelled operations reads; they are left out, appliedAt   *)
(* being set exactly where applied is set.                                 *)
(*                                                                         *)
(* setInterval is modelled by the set timers of the intervals that have    *)
(* been created and not cleared; each remembers the target its callback    *)
(* closed over.  playbackInterval is the one handle the object keeps.      *)
(* Every operation of the replay buffer is synchronous and the runtime is  *)
(* single-threaded, so each operation and each timer callback is one       *)
(* atomic step; an async function is one step per stretch between awaits.  *)
(***************************************************************************)
EXTENDS Integers, Sequences, FiniteSets, TLC

\* ---------------------------------------------------------------- bounds
\* largest maxBufferSize a buffer is constructed with
MaxBufferSize == 2
\* addAction calls since construction or the last clear(): enough to evict
MaxAdds == MaxBufferSize + 1
\* intervals alive at the same time
MaxTimers == 2

\* the clock and the ages validateJoin is tried with: 0..MaxTime
MaxTime == 3
\* symbols in a mana cost handed to parseManaCost
MaxSymbols == 3
\* cards on the battlefield getManaSources reads
MaxCards == 2
\* mana sources a caller hands to autoTapLands
MaxSources == 3
\* largest quantity of one kind of mana in a pool
MaxMana == 2
\* selections in a payment handed to calculateRemainingPool
MaxSelections == 2
\* seats of the largest turn order
MaxSeats == 4
\* spells and abilities put on the stack in one game
MaxPushes == 3
\* turns of one game: enough for every seat to come round once
MaxTurns == MaxSeats + 1

\* program constants
DEFAULT_MAX_BUFFER_SIZE == 10000
DEFAULT_MAX_GAME_AGE == 2 * 60 * 60 * 1000
\* validateJoin warns above this many buffered actions
LateJoinActionCount == 500

BufferSizes == 1..MaxBufferSize
\* index arguments: one below the first index up to one past the largest
IndexInputs == (0 - 1)..MaxBufferSize
OptIndexInputs == {<< >>} \cup {<<i>> : i \in IndexInputs}
ReplayState == {"idle", "playing", "paused", "fast-forwarding", "completed"}
ReplaySpeed == {1, 2, 4, 8, 16}
FastForwardSpeed == 16
\* the speeds setSpeed is called with
SpeedInputs == {1, 16}

VARIABLES
  actions,           \* BufferedAction[]: records [id, applied]
  maxBufferSize,
  currentIndex,
  state,
  speed,
  events,            \* ReplayEvent entries pushed by the last step
  timers,            \* live intervals: records [id, target]
  playbackInterval,  \* optional id of the interval the object holds
  arrived,           \* ids passed to addAction, in call order
  handled,           \* onActionApplied calls made by the last step
  lastOp,            \* the last call that had an effect, with its argument
  now,               \* Date.now()
  gameStartTime,
  maxGameAge,
  joinResult,        \* optional: what validateJoin returned in the last step
  manaCost,          \* the cost string handed to parseManaCost
  request,           \* optional: the ManaPaymentRequest parseManaCost returned
  battlefield,       \* the cards of the battlefield zone, by cardId
  manaSources,       \* the ManaSource[] array the caller holds
  manaPool,
  autoTap,           \* optional: the last call of autoTapLands, its arguments
                     \* as passed and the AutoTapSuggestion it returned
  payment,           \* the ManaSourceSelection[] handed to calculateRemainingPool
  remainingPool,     \* optional: the pool calculateRemainingPool returned
  cleanupOnEnd,      \* AutoSaveGameLifecycle.cleanupOnEnd
  gameState,         \* optional: what getGameState() returns, << >> being null
  replay,            \* optional: what getReplay() returns, << >> being null
  saved,             \* autoSave.triggerAutoSave calls made by the last step
  cleaned,           \* autoSave.cleanupAutoSaves calls made by the last step
  handler,           \* the lifecycle handler the last step called, and how
                     \* the promise it returned settled
  turn,              \* the Turn of the game state
  players,           \* game board page: PlayerState[], records
                     \* [id, isCurrentTurn]
  currentTurnIndex,  \* game board page: index of the player to move
  turnOrderCall,     \* optional: the last call of createTurnOrder, its
                     \* arguments and what it returned
  stack,             \* StackItem[], the top last
  pushCount,         \* items pushed so far: the next item's timestamp
  stackOp,           \* the last stack operation and the item it removed
  wrapped,           \* optional: the wrapper called, withAutoSaveAfter or
                     \* withAutoSaveBefore, and its trigger argument
  wrapPc,            \* where the call of the wrapped action stands
  wrapLog,           \* what the call has done so far, in order
  wrapResult         \* optional: how the promise of the call settled

replayVars == <<actions, maxBufferSize, currentIndex, state, speed, events,
                timers, playbackInterval, arrived, handled, lastOp>>
joinVars == <<now, gameStartTime, maxGameAge, joinResult>>

manaVars == <<manaCost, request, battlefield, manaSources, manaPool, autoTap,
             payment, remainingPool>>

saveVars == <<cleanupOnEnd, gameState, replay, saved, cleaned, handler>>

turnVars == <<turn, players, currentTurnIndex, turnOrderCall>>

stackVars == <<stack, pushCount, stackOp>>

wrapVars == <<wrapped, wrapPc, wrapLog, wrapResult>>

vars == <<replayVars, joinVars, manaVars, saveVars, turnVars, stackVars,
          wrapVars>>

\* the fields of the object, as one record
Self ==
  [actions |-> actions, currentIndex |-> currentIndex, state |-> state,
   speed |-> speed, events |-> << >>, timers |-> timers,
   playbackInterval |-> playbackInterval, handled |-> << >>]

Max(a, b) == IF a >= b THEN a ELSE b
Min(a, b) == IF a <= b THEN a ELSE b

\* a ?? b
Nullish(opt, default) == IF opt = << >> THEN default ELSE opt[1]

\* this.actions[i] is defined
HasIndex(acts, i) == 0 <= i /\ i < Len(acts)

\* ------------------------------------------------------------- emitEvent
\* this.events is written by emitEvent and clear() and read by no operation
\* but getEvents.  The model keeps what a step does to the log: the entries
\* it pushes, in order, and clear() emptying the log as the entry
\* "(cleared)".  Each pushed entry carries a fresh timestamp, so a step leaves
\* the log as it was exactly when this record is empty.
emitEvent(s, type, data) ==
  [s EXCEPT !.events = Append(s.events, [type |-> type, data |-> data])]

\* ---------------------------------------------------------- stopPlayback
stopPlayback(s) ==
  IF s.playbackInterval # << >>
  THEN [s EXCEPT
          !.timers = {t \in s.timers : t.id # s.playbackInterval[1]},
          !.playbackInterval = << >>]
  ELSE s

\* --------------------------------------------------------- startPlayback
\* the handle setInterval returns: one that no live interval has
FreshTimer(s) ==
  CHOOSE i \in 1..(Cardinality(s.timers) + 1) :
    \A t \in s.timers : t.id # i

startPlayback(s, targetIndex) ==
  LET target == Nullish(targetIndex, Len(s.actions) - 1)
      id == FreshTimer(s)
  IN [s EXCEPT
        !.timers = s.timers \cup {[id |-> id, target |-> target]},
        !.playbackInterval = <<id>>]

\* ------------------------------------------------------------- addAction
\* addAction dropping the newest entry (pop) instead of the oldest (shift)
addAction_EvictsNewest(s, a) ==
  LET pushed == Append(s.actions, [id |-> a, applied |-> FALSE])
  IN IF Len(pushed) > maxBufferSize
     THEN [s EXCEPT !.actions = SubSeq(pushed, 1, Len(pushed) - 1),
                    !.currentIndex = Max(0, s.currentIndex - 1)]
     ELSE [s EXCEPT !.actions = pushed]

\* addAction evicting without moving the cursor
addAction_KeepsCursor(s, a) ==
  LET pushed == Append(s.actions, [id |-> a, applied |-> FALSE])
  IN IF Len(pushed) > maxBufferSize
     THEN [s EXCEPT !.actions = Tail(pushed)]
     ELSE [s EXCEPT !.actions = pushed]

addAction(s, a) ==
  LET pushed == Append(s.actions, [id |-> a, applied |-> FALSE])
  IN IF Len(pushed) > maxBufferSize
     THEN [s EXCEPT !.actions = Tail(pushed),
                    !.currentIndex = Max(0, s.currentIndex - 1)]
     ELSE [s EXCEPT !.actions = pushed]

\* ------------------------------------------------------------ addActions
\* this.actions.find((a) => a.action.id === action.id)
Buffered(s, a) == \E i \in 1..Len(s.actions) : s.actions[i].id = a

\* addActions without the look-up of the id
RECURSIVE addActions_NoLookup(_, _)
addActions_NoLookup(s, list) ==
  IF list = << >> THEN s
  ELSE addActions_NoLookup(addAction(s, Head(list)), Tail(list))

RECURSIVE addActions(_, _)
addActions(s, list) ==
  IF list = << >> THEN s
  ELSE addActions(IF ~Buffered(s, Head(list))
                  THEN addAction(s, Head(list))
                  ELSE s,
                  Tail(list))

\* the ids addActions passes on to addAction, in call order
RECURSIVE PassedOn(_, _)
PassedOn(s, list) ==
  IF list = << >> THEN << >>
  ELSE IF ~Buffered(s, Head(list))
       THEN <<Head(list)>> \o PassedOn(addAction(s, Head(list)), Tail(list))
       ELSE PassedOn(s, Tail(list))

\* ----------------------------------------------------------- startReplay
startReplay(s, fromIndex) ==
  IF Len(s.actions) = 0
  THEN s
  ELSE LET s1 == [s EXCEPT !.currentIndex = Nullish(fromIndex, 0),
                           !.state = "playing"]
           s2 == emitEvent(s1, "replay-started", << >>)
       IN startPlayback(s2, << >>)

\* ----------------------------------------------------------- pauseReplay
pauseReplay(s) ==
  IF s.state # "playing" /\ s.state # "fast-forwarding"
  THEN s
  ELSE LET s1 == stopPlayback(s)
           s2 == [s1 EXCEPT !.state = "paused"]
       IN emitEvent(s2, "replay-paused", << >>)

\* ---------------------------------------------------------- resumeReplay
\* resumeReplay without its guard on the state
resumeReplay_NoGuard(s) ==
  LET s1 == [s EXCEPT !.state = "playing"]
      s2 == emitEvent(s1, "replay-resumed", << >>)
  IN startPlayback(s2, << >>)

resumeReplay(s) ==
  IF s.state # "paused"
  THEN s
  ELSE LET s1 == [s EXCEPT !.state = "playing"]
           s2 == emitEvent(s1, "replay-resumed", << >>)
       IN startPlayback(s2, << >>)

\* -------------------------------------------------------------- setSpeed
setSpeed(s, sp) ==
  LET wasPlaying == s.state = "playing" \/ s.state = "fast-forwarding"
      s1 == [s EXCEPT !.speed = sp]
  IN IF wasPlaying THEN startPlayback(stopPlayback(s1), << >>) ELSE s1

\* ------------------------------------------------------ startFastForward
\* startFastForward rejecting only targets below the cursor
startFastForward_StrictGuard(s, targetIndex) ==
  LET target == Nullish(targetIndex, Len(s.actions) - 1)
  IN IF target < s.currentIndex
     THEN s
     ELSE LET s1 == stopPlayback(s)
              s2 == [s1 EXCEPT !.state = "fast-forwarding"]
              s3 == emitEvent(s2, "fast-forward-started", <<target>>)
              s4 == [s3 EXCEPT !.speed = FastForwardSpeed]
          IN startPlayback(s4, <<target>>)

startFastForward(s, targetIndex) ==
  LET target == Nullish(targetIndex, Len(s.actions) - 1)
  IN IF target <= s.currentIndex
     THEN s
     ELSE LET s1 == stopPlayback(s)
              s2 == [s1 EXCEPT !.state = "fast-forwarding"]
              s3 == emitEvent(s2, "fast-forward-started", <<target>>)
              s4 == [s3 EXCEPT !.speed = FastForwardSpeed]
          IN startPlayback(s4, <<target>>)

\* ------------------------------------------------------------ stopReplay
stopReplay(s) ==
  [stopPlayback(s) EXCEPT !.state = "idle"]

\* ---------------------------------------------------------------- seekTo
\* the loop of seekTo: for (i = 0; i <= index; i++) mark actions[i]
RECURSIVE MarkUpTo(_, _, _)
MarkUpTo(s, i, index) ==
  IF i > index
  THEN s
  ELSE IF ~s.actions[i + 1].applied
       THEN MarkUpTo(
              [s EXCEPT !.actions[i + 1].applied = TRUE,
                        !.handled = Append(s.handled,
                           [id |-> s.actions[i + 1].id, index |-> i])],
              i + 1, index)
       ELSE MarkUpTo(s, i + 1, index)

\* seekTo without the check for a negative index
seekTo_NoLowerCheck(s, index) ==
  IF index >= Len(s.actions)
  THEN s
  ELSE LET wasPlaying == s.state = "playing"
           s1 == IF wasPlaying THEN stopPlayback(s) ELSE s
           s2 == MarkUpTo(s1, 0, index)
           s3 == [s2 EXCEPT !.currentIndex = index]
       IN IF wasPlaying THEN startPlayback(s3, << >>) ELSE s3

seekTo(s, index) ==
  IF index < 0 \/ index >= Len(s.actions)
  THEN s
  ELSE LET wasPlaying == s.state = "playing"
           s1 == IF wasPlaying THEN stopPlayback(s) ELSE s
           s2 == MarkUpTo(s1, 0, index)
           s3 == [s2 EXCEPT !.currentIndex = index]
       IN IF wasPlaying THEN startPlayback(s3, << >>) ELSE s3

\* ------------------------------------------------------------- jumpToEnd
jumpToEnd(s) ==
  LET s1 == seekTo(s, Len(s.actions) - 1)
      s2 == [s1 EXCEPT !.state = "completed"]
  IN emitEvent(s2, "replay-completed", << >>)

\* ----------------------------------------------------------- getProgress
RECURSIVE CountApplied(_)
CountApplied(acts) ==
  IF acts = << >> THEN 0
  ELSE (IF Head(acts).applied THEN 1 ELSE 0) + CountApplied(Tail(acts))

getProgress(s) ==
  [totalActions |-> Len(s.actions),
   appliedActions |-> CountApplied(s.actions)]

\* ----------------------------------------------------------------- clear
clear(s) ==
  [stopPlayback(s) EXCEPT !.actions = << >>, !.currentIndex = 0,
                          !.state = "idle",
                          !.events = <<[type |-> "(cleared)", data |-> << >>]>>]

\* -------------------------------------------- the callback of setInterval
\* the callback advancing the cursor past an action it did not apply
tick_Skips(s, target) ==
  IF s.currentIndex > target
  THEN LET s1 == stopPlayback(s)
           s2 == [s1 EXCEPT !.state = "completed"]
       IN emitEvent(s2, "replay-completed", << >>)
  ELSE LET s1 == IF HasIndex(s.actions, s.currentIndex)
                 THEN [s EXCEPT
                         !.actions[s.currentIndex + 1].applied = TRUE,
                         !.handled = Append(s.handled,
                            [id |-> s.actions[s.currentIndex + 1].id,
                             index |-> s.currentIndex])]
                 ELSE s
       IN [s1 EXCEPT !.currentIndex = s1.currentIndex + 2]

\* the callback comparing with >= : completing one tick too early
tick_CompletesEarly(s, target) ==
  IF s.currentIndex >= target
  THEN LET s1 == stopPlayback(s)
           s2 == [s1 EXCEPT !.state = "completed"]
       IN emitEvent(s2, "replay-completed", << >>)
  ELSE LET s1 == IF HasIndex(s.actions, s.currentIndex)
                 THEN [s EXCEPT
                         !.actions[s.currentIndex + 1].applied = TRUE,
                         !.handled = Append(s.handled,
                            [id |-> s.actions[s.currentIndex + 1].id,
                             index |-> s.currentIndex])]
                 ELSE s
       IN [s1 EXCEPT !.currentIndex = s1.currentIndex + 1]

tick(s, target) ==
  IF s.currentIndex > target
  THEN LET s1 == stopPlayback(s)
           s2 == [s1 EXCEPT !.state = "completed"]
       IN emitEvent(s2, "replay-completed", << >>)
  ELSE LET s1 == IF HasIndex(s.actions, s.currentIndex)
                 THEN [s EXCEPT
                         !.actions[s.currentIndex + 1].applied = TRUE,
                         !.handled = Append(s.handled,
                            [id |-> s.actions[s.currentIndex + 1].id,
                             index |-> s.currentIndex])]
                 ELSE s
       IN [s1 EXCEPT !.currentIndex = s1.currentIndex + 1]

\* ---------------------------------------------------------- validateJoin
\* validateJoin refusing a game whose age equals maxGameAge
validateJoin_AgeInclusive(acts, clock) ==
  LET gameAge == clock - gameStartTime
      actionCount == Len(acts)
      info == [actionCount |-> actionCount, gameAge |-> gameAge]
  IN IF gameAge >= maxGameAge
     THEN [canJoin |-> FALSE, reason |-> <<"Game is too old to join">>,
           info |-> info]
     ELSE IF actionCount > LateJoinActionCount
          THEN [canJoin |-> TRUE,
                reason |-> <<"Warning: Late join to advanced game">>,
                info |-> info]
          ELSE [canJoin |-> TRUE, reason |-> << >>, info |-> info]

\* The result; reason is optional.  oldestActionTimestamp echoes receivedAt,
\* one of the timestamps the model leaves out.  clock is the value Date.now()
\* returns in the call.
validateJoin(acts, clock) ==
  LET gameAge == clock - gameStartTime
      actionCount == Len(acts)
      info == [actionCount |-> actionCount, gameAge |-> gameAge]
  IN IF gameAge > maxGameAge
     THEN [canJoin |-> FALSE, reason |-> <<"Game is too old to join">>,
           info |-> info]
     ELSE IF actionCount > LateJoinActionCount
          THEN [canJoin |-> TRUE,
                reason |-> <<"Warning: Late join to advanced game">>,
                info |-> info]
          ELSE [canJoin |-> TRUE, reason |-> << >>, info |-> info]

\* ========================================================== mana payment
\* src/src/lib/game-state/mana-payment.ts.  A string is the sequence of its
\* characters, each a one-character string; "" and null are both << >>.
\* An object with optional keys (Partial<Record<ManaColor, number>>) is the
\* sequence of its <<key, value>> entries in insertion order, the order
\* Object.entries and Object.values enumerate.
ManaColor == {"white", "blue", "black", "red", "green", "colorless"}

HasKey(obj, k) == \E i \in 1..Len(obj) : obj[i][1] = k
KeyIndex(obj, k) == CHOOSE i \in 1..Len(obj) : obj[i][1] = k
\* obj[k] || 0
GetOr0(obj, k) == IF HasKey(obj, k) THEN obj[KeyIndex(obj, k)][2] ELSE 0
\* obj[k] = v
Put(obj, k, v) ==
  IF HasKey(obj, k)
  THEN [obj EXCEPT ![KeyIndex(obj, k)] = <<k, v>>]
  ELSE Append(obj, <<k, v>>)

RECURSIVE SumValues(_)
SumValues(obj) ==
  IF obj = << >> THEN 0 ELSE Head(obj)[2] + SumValues(Tail(obj))

\* --------------------------------------------------------- parseManaCost
Digits == <<"0", "1", "2", "3", "4", "5", "6", "7", "8", "9">>
IsDigit(ch) == \E i \in 1..Len(Digits) : Digits[i] = ch
DigitValue(ch) == (CHOOSE i \in 1..Len(Digits) : Digits[i] = ch) - 1

\* parseInt on a string without white space or sign: the value of the longest
\* prefix of digits, NaN (<< >>) when the first character is not a digit
RECURSIVE LeadingDigits(_, _, _)
LeadingDigits(str, i, acc) ==
  IF i > Len(str) \/ ~IsDigit(str[i])
  THEN acc
  ELSE LeadingDigits(str, i + 1, acc * 10 + DigitValue(str[i]))

parseInt(str) ==
  IF str = << >> \/ ~IsDigit(str[1]) THEN << >>
  ELSE <<LeadingDigits(str, 1, 0)>>

\* manaCost.replace(/[{}]/g, '')
RECURSIVE RemoveBraces(_)
RemoveBraces(str) ==
  IF str = << >> THEN << >>
  ELSE IF Head(str) \in {"{", "}"} THEN RemoveBraces(Tail(str))
       ELSE <<Head(str)>> \o RemoveBraces(Tail(str))

\* cost.split(/([WUBRGS])/g).filter(p => p.length > 0): each of the letters
\* is a part of its own, each maximal run of other characters is one part
SplitLetters == {"W", "U", "B", "R", "G", "S"}

RECURSIVE SplitParts(_, _, _, _)
SplitParts(cost, i, run, parts) ==
  LET flushed == IF run = << >> THEN parts ELSE Append(parts, run)
  IN IF i > Len(cost) THEN flushed
     ELSE IF cost[i] \in SplitLetters
          THEN SplitParts(cost, i + 1, << >>, Append(flushed, <<cost[i]>>))
          ELSE SplitParts(cost, i + 1, Append(run, cost[i]), parts)

\* one iteration of for (const part of parts)
ParsePart(acc, part) ==
  LET more(color) ==
        [acc EXCEPT !.requiredColors =
           Put(acc.requiredColors, color, GetOr0(acc.requiredColors, color) + 1)]
  IN IF part = <<"W">> THEN more("white")
     ELSE IF part = <<"U">> THEN more("blue")
     ELSE IF part = <<"B">> THEN more("black")
     ELSE IF part = <<"R">> THEN more("red")
     ELSE IF part = <<"G">> THEN more("green")
     ELSE IF part = <<"S">> THEN acc
     ELSE IF part = <<"X">> \/ part = <<"Y">>
          THEN [acc EXCEPT !.hasXCost = TRUE]
     ELSE IF parseInt(part) # << >>
          THEN [acc EXCEPT !.genericCost = acc.genericCost + parseInt(part)[1]]
     ELSE acc

RECURSIVE ParseParts(_, _)
ParseParts(acc, parts) ==
  IF parts = << >> THEN acc
  ELSE ParseParts(ParsePart(acc, Head(parts)), Tail(parts))

parseManaCost(str) ==
  IF str = << >>
  THEN [genericCost |-> 0, requiredColors |-> << >>, totalCost |-> 0,
        hasXCost |-> FALSE, isSnowCost |-> FALSE]
  ELSE LET cost == RemoveBraces(str)
           isSnowCost == \E i \in 1..Len(cost) : cost[i] = "S"
           parts == SplitParts(cost, 1, << >>, << >>)
           acc == ParseParts([genericCost |-> 0, requiredColors |-> << >>,
                              hasXCost |-> FALSE], parts)
       IN [genericCost |-> acc.genericCost,
           requiredColors |-> acc.requiredColors,
           totalCost |-> acc.genericCost + SumValues(acc.requiredColors),
           hasXCost |-> acc.hasXCost,
           isSnowCost |-> isSnowCost]

\* -------------------------------------------------------- getManaSources
\* A text that is only searched (type_line, name: lower-cased, then
\* includes(keyword)) is the set of the searched keywords that occur in it.
Includes(text, keyword) == keyword \in text

AnyOf(text, keywords) == \E k \in keywords : Includes(text, k)

DualLandNames ==
  {"tolarian", "tropical", "taiga", "badlands", "underground", "scrubland",
   "volcanic", "bayou", "plateau", "savannah"}

\* if (text.includes(a) || text.includes(b)) produces.push(color), for the
\* five colours in the order white, blue, black, red, green
ColoursNamed(text, braced) ==
  (IF AnyOf(text, {"white", IF braced THEN "{w}" ELSE "plains"})
   THEN <<"white">> ELSE << >>)
  \o (IF AnyOf(text, {"blue", IF braced THEN "{u}" ELSE "island"})
      THEN <<"blue">> ELSE << >>)
  \o (IF AnyOf(text, {"black", IF braced THEN "{b}" ELSE "swamp"})
      THEN <<"black">> ELSE << >>)
  \o (IF AnyOf(text, {"red", IF braced THEN "{r}" ELSE "mountain"})
      THEN <<"red">> ELSE << >>)
  \o (IF AnyOf(text, {"green", IF braced THEN "{g}" ELSE "forest"})
      THEN <<"green">> ELSE << >>)

\* the chain over plains, island, swamp, mountain, forest
BasicLandProductions(lowerType) ==
  IF Includes(lowerType, "plains") THEN <<"white", "colorless">>
  ELSE IF Includes(lowerType, "island") THEN <<"blue", "colorless">>
  ELSE IF Includes(lowerType, "swamp") THEN <<"black", "colorless">>
  ELSE IF Includes(lowerType, "mountain") THEN <<"red", "colorless">>
  ELSE IF Includes(lowerType, "forest") THEN <<"green", "colorless">>
  ELSE << >>

getLandManaProductions(typeLine, cardName) ==
  LET lowerType == typeLine
      lowerName == cardName
  IN IF AnyOf(lowerType, {"plains", "island", "swamp", "mountain", "forest"})
     THEN BasicLandProductions(lowerType)
     ELSE IF Includes(lowerType, "snow-covered")
          THEN BasicLandProductions(lowerType)
     ELSE IF AnyOf(lowerName, DualLandNames)
          THEN ColoursNamed(lowerName, FALSE) \o <<"colorless">>
     ELSE IF Includes(lowerType, "tap: add")
          THEN IF ColoursNamed(lowerType, TRUE) = << >>
               THEN <<"colorless">>
               ELSE ColoursNamed(lowerType, TRUE)
     ELSE << >>

InSeq(seq, x) == \E i \in 1..Len(seq) : seq[i] = x

\* zone[cardId] is cards.get(cardId) for the cardIds 1, 2, ... of the
\* zone: << >> when the map has no such card, <<card>> otherwise
RECURSIVE SourcesFrom(_, _)
SourcesFrom(zone, cardId) ==
  IF cardId > Len(zone) THEN << >>
  ELSE LET entry == zone[cardId]
           rest == SourcesFrom(zone, cardId + 1)
       IN IF entry = << >> THEN rest
          ELSE LET card == entry[1]
                   typeLine == card.type_line
                   produces == getLandManaProductions(card.type_line, card.nameWords)
               IN IF ~Includes(typeLine, "land") THEN rest
                  ELSE IF card.isTapped THEN rest
                  ELSE <<[cardId |-> cardId,
                          cardName |-> card.name,
                          isTapped |-> card.isTapped,
                          canProduceColor |->
                            Len(produces) > 0 /\ ~InSeq(produces, "colorless"),
                          produces |-> produces,
                          isSnow |-> Includes(typeLine, "snow"),
                          producesColorless |-> InSeq(produces, "colorless")]>>
                       \o rest

getManaSources(zone) == SourcesFrom(zone, 1)

\* ---------------------------------------------------------- autoTapLands
\* array.splice(idx, 1), idx counted from 1
Splice(seq, idx) == SubSeq(seq, 1, idx - 1) \o SubSeq(seq, idx + 1, Len(seq))

\* color.charAt(0).toUpperCase()
FirstLetterUpper ==
  [white |-> "W", blue |-> "B", black |-> "B", red |-> "R", green |-> "G",
   colorless |-> "C"]

\* the inner loop: the first colour of source.produces, colorless skipped,
\* of which some is still needed; << >> if there is none
RECURSIVE FirstNeeded(_, _, _)
FirstNeeded(produces, j, remainingNeeded) ==
  IF j > Len(produces) THEN << >>
  ELSE IF produces[j] # "colorless" /\ GetOr0(remainingNeeded, produces[j]) > 0
       THEN <<produces[j]>>
       ELSE FirstNeeded(produces, j + 1, remainingNeeded)

\* for (const source of manaSources) with the splice in its body: the
\* iterator reads manaSources[i] for i = 1, 2, ... while i is within the
\* array as it is at that moment
RECURSIVE ColourLoop(_, _)
ColourLoop(st, i) ==
  IF i > Len(st.manaSources) THEN st
  ELSE LET source == st.manaSources[i]
           found == IF source.canProduceColor
                    THEN FirstNeeded(source.produces, 1, st.remainingNeeded)
                    ELSE << >>
       IN IF found = << >> THEN ColourLoop(st, i + 1)
          ELSE LET color == found[1]
                   needed == GetOr0(st.remainingNeeded, color)
               IN ColourLoop(
                    [selected |-> Append(st.selected,
                        [cardId |-> source.cardId, cardName |-> source.cardName,
                         color |-> color, amount |-> 1]),
                     remainingNeeded |-> Put(st.remainingNeeded, color, needed - 1),
                     explanation |-> Append(st.explanation,
                        <<"Tapped", source.cardName, "for",
                          FirstLetterUpper[color]>>),
                     manaSources |-> Splice(st.manaSources, i)],
                    i + 1)

\* the second loop, over the sources the first loop left in the array
RECURSIVE GenericLoop(_, _)
GenericLoop(st, i) ==
  IF i > Len(st.manaSources) \/ st.genericNeeded <= 0 THEN st
  ELSE LET source == st.manaSources[i]
           color == IF source.producesColorless THEN "colorless"
                    ELSE IF source.produces # << >> THEN source.produces[1]
                    ELSE "colorless"
       IN GenericLoop(
            [st EXCEPT
               !.selected = Append(st.selected,
                  [cardId |-> source.cardId, cardName |-> source.cardName,
                   color |-> color, amount |-> 1]),
               !.genericNeeded = st.genericNeeded - 1,
               !.explanation = Append(st.explanation,
                  <<"Tapped", source.cardName, "for", "colorless">>)],
            i + 1)

\* Object.entries(remainingNeeded).filter(count > 0).map(color)
RECURSIVE UnmetColors(_)
UnmetColors(remainingNeeded) ==
  IF remainingNeeded = << >> THEN << >>
  ELSE (IF Head(remainingNeeded)[2] > 0
        THEN <<Head(remainingNeeded)[1]>> ELSE << >>)
       \o UnmetColors(Tail(remainingNeeded))

\* autoTapLands returning on failure what it had selected so far
autoTapLands_PartialPayment(pool, sources, req) ==
  LET afterColours ==
        ColourLoop([selected |-> << >>, explanation |-> << >>,
                    remainingNeeded |-> req.requiredColors,
                    manaSources |-> sources], 1)
      unmetColors == UnmetColors(afterColours.remainingNeeded)
      afterGeneric ==
        GenericLoop([selected |-> afterColours.selected,
                     explanation |-> afterColours.explanation,
                     manaSources |-> afterColours.manaSources,
                     genericNeeded |-> req.genericCost], 1)
      canPay == afterGeneric.genericNeeded <= 0
  IN IF Len(unmetColors) > 0
     THEN [result |-> [sources |-> afterColours.selected, canPay |-> FALSE,
                       explanation |->
                         <<"Cannot produce required colors", unmetColors>>],
           manaSources |-> afterColours.manaSources]
     ELSE [result |-> [sources |-> afterGeneric.selected, canPay |-> canPay,
                       explanation |->
                         IF canPay THEN afterGeneric.explanation
                         ELSE <<"Need more mana", afterGeneric.genericNeeded>>],
           manaSources |-> afterColours.manaSources]

\* The value returned and the array manaSources as the call leaves it (the
\* caller's array: the first loop splices it in place).  An explanation is
\* the sequence of the pieces its text is put together from.  availablePool,
\* the copy of the pool the function counts colourless sources into, is
\* read by nothing.
autoTapLands(pool, sources, req) ==
  LET afterColours ==
        ColourLoop([selected |-> << >>, explanation |-> << >>,
                    remainingNeeded |-> req.requiredColors,
                    manaSources |-> sources], 1)
      unmetColors == UnmetColors(afterColours.remainingNeeded)
      afterGeneric ==
        GenericLoop([selected |-> afterColours.selected,
                     explanation |-> afterColours.explanation,
                     manaSources |-> afterColours.manaSources,
                     genericNeeded |-> req.genericCost], 1)
      canPay == afterGeneric.genericNeeded <= 0
  IN IF Len(unmetColors) > 0
     THEN [result |-> [sources |-> << >>, canPay |-> FALSE,
                       explanation |->
                         <<"Cannot produce required colors", unmetColors>>],
           manaSources |-> afterColours.manaSources]
     ELSE [result |-> [sources |-> afterGeneric.selected, canPay |-> canPay,
                       explanation |->
                         IF canPay THEN afterGeneric.explanation
                         ELSE <<"Need more mana", afterGeneric.genericNeeded>>],
           manaSources |-> afterColours.manaSources]

\* ------------------------------------------------ calculateRemainingPool
\* the loop over the selections, remaining being the copy of the pool
RECURSIVE Subtracted(_, _)
Subtracted(remaining, selections) ==
  IF selections = << >> THEN remaining
  ELSE LET selection == Head(selections)
       IN Subtracted(
            IF selection.color = "colorless"
            THEN [remaining EXCEPT
                    !.colorless = Max(0, remaining.colorless - selection.amount)]
            ELSE [remaining EXCEPT
                    ![selection.color] =
                       Max(0, remaining[selection.color] - selection.amount)],
            Tail(selections))

\* the loop without Math.max(0, ...)
RECURSIVE SubtractedUnclamped(_, _)
SubtractedUnclamped(remaining, selections) ==
  IF selections = << >> THEN remaining
  ELSE LET selection == Head(selections)
       IN SubtractedUnclamped(
            [remaining EXCEPT
               ![selection.color] = remaining[selection.color] - selection.amount],
            Tail(selections))

\* calculateRemainingPool subtracting without the clamp at zero
calculateRemainingPool_NoClamp(originalPool, selections) ==
  [result |-> SubtractedUnclamped(originalPool, selections),
   originalPool |-> originalPool]

\* The pool returned and the caller's pool object as the call leaves it.
\* Every ManaPool has all seven quantities, so remaining[color] || 0 is
\* remaining[color].
calculateRemainingPool(originalPool, selections) ==
  [result |-> Subtracted(originalPool, selections),
   originalPool |-> originalPool]

\* ================================================== AutoSaveGameLifecycle
\* src/src/components/stack-display.tsx.  A handler is what one call of it
\* asks of the autoSave object: the triggerAutoSave calls in order, each with
\* its three arguments, and the number of cleanupAutoSaves calls.  g and r
\* are what this.getGameState() and this.getReplay() return.
NoCalls == [saved |-> << >>, cleaned |-> 0]

triggerAutoSave(trigger, g, r) ==
  [saved |-> <<[trigger |-> trigger, gameState |-> g, replay |-> r]>>,
   cleaned |-> 0]

onTurnEnd(g, r) ==
  IF g # << >> THEN triggerAutoSave("end_of_turn", g[1], r) ELSE NoCalls

\* onCombatEnd saving under the trigger of onTurnEnd
onCombatEnd_WrongTrigger(g, r) ==
  IF g # << >> THEN triggerAutoSave("end_of_turn", g[1], r) ELSE NoCalls

onCombatEnd(g, r) ==
  IF g # << >> THEN triggerAutoSave("after_combat", g[1], r) ELSE NoCalls

onPassPriority(g, r) ==
  IF g # << >> THEN triggerAutoSave("pass_priority", g[1], r) ELSE NoCalls

onBeforeModal(g, r) ==
  IF g # << >> THEN triggerAutoSave("before_modal", g[1], r) ELSE NoCalls

onCardPlayed(g, r) ==
  IF g # << >> THEN triggerAutoSave("card_played", g[1], r) ELSE NoCalls

onSpellResolved(g, r) ==
  IF g # << >> THEN triggerAutoSave("spell_resolved", g[1], r) ELSE NoCalls

onPlayerGainedLife(g, r) ==
  IF g # << >> THEN triggerAutoSave("player_gained_life", g[1], r) ELSE NoCalls

onCreatureDied(g, r) ==
  IF g # << >> THEN triggerAutoSave("creature_died", g[1], r) ELSE NoCalls

onGameEnd(cleanup) ==
  IF cleanup THEN [saved |-> << >>, cleaned |-> 1] ELSE NoCalls

\* onGameQuit purging whatever cleanupOnEnd says
onGameQuit_AlwaysCleans(cleanup) ==
  [saved |-> << >>, cleaned |-> 1]

onGameQuit(cleanup) ==
  IF cleanup THEN [saved |-> << >>, cleaned |-> 1] ELSE NoCalls

\* AutoSaveTrigger | null as an optional value
EVENT_TO_TRIGGER ==
  [turn_end |-> <<"end_of_turn">>,
   combat_end |-> <<"after_combat">>,
   pass_priority |-> <<"pass_priority">>,
   before_modal |-> <<"before_modal">>,
   card_played |-> <<"card_played">>,
   spell_resolved |-> <<"spell_resolved">>,
   player_gained_life |-> <<"player_gained_life">>,
   creature_died |-> <<"creature_died">>,
   game_end |-> << >>,
   game_quit |-> << >>]

\* ------------------------------------------------- wrapped game actions
\* withAutoSaveAfter and withAutoSaveBefore return an async function.  A
\* call of it runs up to its first await and goes on when the awaited
\* promise settles, so each wrapper is given as the step it takes from a
\* position pc: "called" at the call, "await action" and "await save" when
\* the promise awaited there has settled as awaited.  result is the local
\* of that name, g and r what getGameState() and getReplay() return when
\* the step runs.  A step gives the next position, what it did, the
\* triggerAutoSave call it made and, when the call is over, how its promise
\* settled.
Fulfilled(value) == [status |-> "fulfilled", value |-> value]

Goes(pc, result, does, calls) ==
  [pc |-> pc, result |-> result, does |-> does, saved |-> calls.saved,
   settled |-> << >>]

Settles(how) ==
  [pc |-> "done", result |-> << >>, does |-> << >>, saved |-> << >>,
   settled |-> <<how>>]

withAutoSaveAfter(pc, result, awaited, trigger, g, r) ==
  CASE pc = "called" ->
         Goes("await action", << >>, <<"action starts">>, NoCalls)
    [] pc = "await action" ->
         IF awaited.status = "rejected" THEN Settles(awaited)
         ELSE IF g # << >>
         THEN Goes("await save", <<awaited.value>>,
                   <<"game state read", "save starts">>,
                   triggerAutoSave(trigger, g[1], r))
         ELSE Settles(Fulfilled(awaited.value))
    [] pc = "await save" ->
         IF awaited.status = "rejected" THEN Settles(awaited)
         ELSE Settles(Fulfilled(result[1]))

withAutoSaveBefore(pc, result, awaited, trigger, g, r) ==
  CASE pc = "called" ->
         IF g # << >>
         THEN Goes("await save", << >>, <<"game state read", "save starts">>,
                   triggerAutoSave(trigger, g[1], r))
         ELSE Goes("await action", << >>, <<"action starts">>, NoCalls)
    [] pc = "await save" ->
         IF awaited.status = "rejected" THEN Settles(awaited)
         ELSE Goes("await action", << >>, <<"action starts">>, NoCalls)
    [] pc = "await action" -> Settles(awaited)

\* ============================================================ turn order
\* turn-phases.ts keeps the Turn of the game state: turnOrder is the seating,
\* activePlayerIndex the 0-based seat whose turn it is in the normal
\* sequence, activePlayerId the player taking the turn.  The phase, the
\* priority holder and turnOrderType are fields no function below reads.
\* Turn values are immutable: every function returns a new Turn.
createTurn(turnOrder, activePlayerIndex) ==
  [turnNumber |-> 1,
   roundNumber |-> 1,
   turnOrder |-> turnOrder,
   activePlayerIndex |-> activePlayerIndex,
   activePlayerId |-> turnOrder[activePlayerIndex + 1]]

\* the orders a shuffle of playerIds can produce: every arrangement of the
\* same ids
RECURSIVE shuffle(_)
shuffle(playerIds) ==
  IF playerIds = << >> THEN {<< >>}
  ELSE UNION {{<<playerIds[i]>> \o rest :
                 rest \in shuffle(SubSeq(playerIds, 1, i - 1)
                                    \o SubSeq(playerIds, i + 1, Len(playerIds)))} :
              i \in 1..Len(playerIds)}

\* the validation of a custom order: every player is seated exactly once and
\* nobody else is
isValidTurnOrder(order, playerIds) ==
  /\ Len(order) = Len(playerIds)
  /\ \A i \in 1..Len(playerIds) : \E j \in 1..Len(order) : order[j] = playerIds[i]
  /\ \A i, j \in 1..Len(order) : order[i] = order[j] => i = j

\* a custom order is returned as the caller supplied it
createTurnOrder_CustomUnvalidated(playerIds, turnOrderType, customOrder, shuffled) ==
  CASE turnOrderType = "clockwise" -> [error |-> << >>, turnOrder |-> playerIds]
    [] turnOrderType = "random" -> [error |-> << >>, turnOrder |-> shuffled]
    [] turnOrderType = "custom" -> [error |-> << >>, turnOrder |-> customOrder]

\* createTurnOrder(playerIds, turnOrderType): customOrder is the order the
\* caller supplies with "custom", shuffled the order the shuffle of "random"
\* came to
createTurnOrder(playerIds, turnOrderType, customOrder, shuffled) ==
  CASE turnOrderType = "clockwise" -> [error |-> << >>, turnOrder |-> playerIds]
    [] turnOrderType = "random" -> [error |-> << >>, turnOrder |-> shuffled]
    [] turnOrderType = "custom" ->
         IF isValidTurnOrder(customOrder, playerIds)
         THEN [error |-> << >>, turnOrder |-> customOrder]
         ELSE [error |-> <<"InvalidTurnOrder">>, turnOrder |-> << >>]

\* the 0-based seat of a player, -1 for a player that is not seated
RECURSIVE SeatFrom(_, _, _)
SeatFrom(turnOrder, playerId, i) ==
  IF i >= Len(turnOrder) THEN 0 - 1
  ELSE IF turnOrder[i + 1] = playerId THEN i
  ELSE SeatFrom(turnOrder, playerId, i + 1)

indexOf(turnOrder, playerId) == SeatFrom(turnOrder, playerId, 0)

getNextPlayerInTurnOrder(t) ==
  t.turnOrder[((t.activePlayerIndex + 1) % Len(t.turnOrder)) + 1]

isLeftNeighbor(t, playerId, referencePlayerId) ==
  LET refIndex == indexOf(t.turnOrder, referencePlayerId)
      N == Len(t.turnOrder)
  IN  /\ refIndex >= 0
      /\ indexOf(t.turnOrder, playerId) = (refIndex + 1) % N

isRightNeighbor_NoWrap(t, playerId, referencePlayerId) ==
  LET refIndex == indexOf(t.turnOrder, referencePlayerId)
  IN  /\ refIndex >= 0
      /\ indexOf(t.turnOrder, playerId) = refIndex - 1

isRightNeighbor(t, playerId, referencePlayerId) ==
  LET refIndex == indexOf(t.turnOrder, referencePlayerId)
      N == Len(t.turnOrder)
  IN  /\ refIndex >= 0
      /\ indexOf(t.turnOrder, playerId) = (refIndex - 1 + N) % N

\* extraTurn is optional: << >> starts the turn of the next seat, <<p>>
\* starts a turn flagged as an extra turn of player p, which leaves the
\* seat and the round as they are
startNextTurn_RoundOnExtraTurn(t, extraTurn) ==
  LET nextIndex == IF extraTurn # << >> THEN t.activePlayerIndex
                   ELSE (t.activePlayerIndex + 1) % Len(t.turnOrder)
  IN  [t EXCEPT !.turnNumber = @ + 1,
                !.roundNumber = IF nextIndex = 0 THEN @ + 1 ELSE @,
                !.activePlayerIndex = nextIndex,
                !.activePlayerId = IF extraTurn # << >> THEN extraTurn[1]
                                   ELSE t.turnOrder[nextIndex + 1]]

startNextTurn(t, extraTurn) ==
  IF extraTurn # << >>
  THEN [t EXCEPT !.turnNumber = @ + 1,
                 !.activePlayerId = extraTurn[1]]
  ELSE LET nextIndex == (t.activePlayerIndex + 1) % Len(t.turnOrder)
       IN  [t EXCEPT !.turnNumber = @ + 1,
                     !.roundNumber = IF nextIndex = 0 THEN @ + 1 ELSE @,
                     !.activePlayerIndex = nextIndex,
                     !.activePlayerId = t.turnOrder[nextIndex + 1]]

\* ------------------------------------------------------- game board page
\* The page keeps players and currentTurnIndex as React state; the effect on
\* playerCount builds the mock players, none of them flagged, and resets
\* the index.  Of a PlayerState only id and isCurrentTurn are modelled, the
\* zones and life totals being read by no turn code.
PlayerCount == {2, 4}

MockPlayerIds == <<"player-1", "player-2", "player-3", "player-4">>

generateMockPlayer(id) == [id |-> id, isCurrentTurn |-> FALSE]

newPlayers(playerCount) ==
  [i \in 1..playerCount |-> generateMockPlayer(MockPlayerIds[i])]

advanceTurn_SkipsSeat(index, ps) ==
  LET nextIndex == (index + 2) % Len(ps)
  IN  [currentTurnIndex |-> nextIndex,
       players |-> [idx \in 1..Len(ps) |->
                      [ps[idx] EXCEPT !.isCurrentTurn =
                                        (idx - 1 = nextIndex)]]]

\* the state the two setters leave: the index and the re-flagged players
advanceTurn(index, ps) ==
  LET nextIndex == (index + 1) % Len(ps)
  IN  [currentTurnIndex |-> nextIndex,
       players |-> [idx \in 1..Len(ps) |->
                      [ps[idx] EXCEPT !.isCurrentTurn =
                                        (idx - 1 = nextIndex)]]]

\* ------------------------------------------------------------------ steps
\* the object takes the fields of s; op names the call that was made
\* A call that changes no field and makes no callback leaves every variable
\* as it is (a stuttering step).
Becomes(s, op, arg) ==
  /\ Cardinality(s.timers) <= MaxTimers
  /\ actions' = s.actions
  /\ currentIndex' = s.currentIndex
  /\ state' = s.state
  /\ speed' = s.speed
  /\ events' = IF s = Self THEN events ELSE s.events
  /\ timers' = s.timers
  /\ playbackInterval' = s.playbackInterval
  /\ handled' = IF s = Self THEN handled ELSE s.handled
  /\ lastOp' = IF s = Self THEN lastOp ELSE [op |-> op, arg |-> arg]
  /\ UNCHANGED maxBufferSize
  /\ UNCHANGED <<joinVars, manaVars, saveVars, turnVars, stackVars,
                 wrapVars>>

\* a buffer as constructed with no options
ReplayIdle ==
  /\ actions = << >>
  /\ maxBufferSize = DEFAULT_MAX_BUFFER_SIZE
  /\ currentIndex = 0
  /\ state = "idle"
  /\ speed = 1
  /\ events = << >>
  /\ timers = {}
  /\ playbackInterval = << >>
  /\ arrived = << >>
  /\ handled = << >>
  /\ lastOp = [op |-> "new", arg |-> << >>]

\* the parts of the state an execution does not use stay as they start
JoinIdle ==
  /\ now = 0
  /\ gameStartTime = 0
  /\ maxGameAge = DEFAULT_MAX_GAME_AGE
  /\ joinResult = << >>

EmptyPool ==
  [white |-> 0, blue |-> 0, black |-> 0, red |-> 0, green |-> 0,
   colorless |-> 0, generic |-> 0]

TapIdle ==
  /\ battlefield = << >>
  /\ manaSources = << >>
  /\ manaPool = EmptyPool
  /\ autoTap = << >>
  /\ payment = << >>
  /\ remainingPool = << >>

ManaIdle ==
  /\ manaCost = << >>
  /\ request = << >>
  /\ TapIdle

\* an AutoSaveGameLifecycle as constructed with cleanupOnEnd defaulted, for
\* a session that has no game
SaveIdle ==
  /\ cleanupOnEnd = TRUE
  /\ gameState = << >>
  /\ replay = << >>
  /\ saved = << >>
  /\ cleaned = 0
  /\ handler = << >>

\* a game state as created for two players, and the game board page before
\* it is mounted
TurnIdle ==
  /\ turn = createTurn(<<"A", "B">>, 0)
  /\ players = << >>
  /\ currentTurnIndex = 0
  /\ turnOrderCall = << >>

\* ================================================================ stack
\* The stack is a StackItem[] whose last element is the top.  The engine
\* that pushes and resolves is part of the game-state module; StackDisplay
\* renders the array it is given.

\* a spell or ability goes on top
push(stk, item) == Append(stk, item)

\* the top item resolves and leaves the stack; an empty stack stays as it is
resolve(stk) ==
  IF stk = << >> THEN [stack |-> stk, resolved |-> << >>]
  ELSE [stack |-> SubSeq(stk, 1, Len(stk) - 1), resolved |-> <<stk[Len(stk)]>>]

\* stack[stack.length - 1], undefined for an empty stack
topItem(stk) == IF stk = << >> THEN << >> ELSE <<stk[Len(stk)]>>

\* the array is shown as it is given: the first element is marked as top
StackDisplay_NotReversed(stk, expanded) ==
  IF expanded
  THEN [k \in 1..Len(stk) |->
          [item |-> stk[k],
           position |-> Len(stk) - (k - 1),
           isTop |-> (k - 1) = 0]]
  ELSE IF topItem(stk) # << >>
  THEN <<[item |-> stk[1], position |-> Len(stk), isTop |-> TRUE]>>
  ELSE << >>

\* the StackItemDisplay elements StackDisplay renders, from the top of the
\* card down: expanded, [...stack].reverse() with index = k - 1; collapsed,
\* the top item alone
StackDisplay(stk, expanded) ==
  IF expanded
  THEN [k \in 1..Len(stk) |->
          [item |-> stk[Len(stk) + 1 - k],
           position |-> Len(stk) - (k - 1),
           isTop |-> (k - 1) = 0]]
  ELSE IF topItem(stk) # << >>
  THEN <<[item |-> topItem(stk)[1], position |-> Len(stk), isTop |-> TRUE]>>
  ELSE << >>

\* an empty stack
StackIdle ==
  /\ stack = << >>
  /\ pushCount = 0
  /\ stackOp = [op |-> "new", removed |-> << >>]

\* no wrapped action has been called
WrapIdle ==
  /\ wrapped = << >>
  /\ wrapPc = "idle"
  /\ wrapLog = << >>
  /\ wrapResult = << >>

Init ==
  /\ actions = << >>
  /\ maxBufferSize \in BufferSizes
  /\ currentIndex = 0
  /\ state = "idle"
  /\ speed = 1
  /\ events = << >>
  /\ timers = {}
  /\ playbackInterval = << >>
  /\ arrived = << >>
  /\ handled = << >>
  /\ lastOp = [op |-> "new", arg |-> << >>]
  /\ JoinIdle
  /\ ManaIdle
  /\ SaveIdle
  /\ TurnIdle
  /\ StackIdle
  /\ WrapIdle

\* GameAction ids are unique: the k-th action added since construction or
\* the last clear() has id k
AddAction ==
  \E a \in {Len(arrived) + 1} :
    /\ Len(arrived) < MaxAdds
    /\ arrived' = Append(arrived, a)
    /\ Becomes(addAction(Self, a), "addAction", << >>)

StartReplay ==
  \E fromIndex \in OptIndexInputs :
    /\ Becomes(startReplay(Self, fromIndex), "startReplay", fromIndex)
    /\ UNCHANGED arrived

PauseReplay ==
  /\ Becomes(pauseReplay(Self), "pauseReplay", << >>)
  /\ UNCHANGED arrived

ResumeReplay ==
  /\ Becomes(resumeReplay(Self), "resumeReplay", << >>)
  /\ UNCHANGED arrived

SetSpeed ==
  \E sp \in SpeedInputs :
    /\ Becomes(setSpeed(Self, sp), "setSpeed", << >>)
    /\ UNCHANGED arrived

StartFastForward ==
  \E targetIndex \in OptIndexInputs :
    /\ Becomes(startFastForward(Self, targetIndex),
               "startFastForward", targetIndex)
    /\ UNCHANGED arrived

StopReplay ==
  /\ Becomes(stopReplay(Self), "stopReplay", << >>)
  /\ UNCHANGED arrived

SeekTo ==
  \E index \in IndexInputs :
    /\ Becomes(seekTo(Self, index), "seekTo", <<index>>)
    /\ UNCHANGED arrived

JumpToEnd ==
  /\ Becomes(jumpToEnd(Self), "jumpToEnd", << >>)
  /\ UNCHANGED arrived

Clear ==
  /\ Becomes(clear(Self), "clear", << >>)
  /\ arrived' = << >>

Tick ==
  \E t \in timers :
    /\ Becomes(tick(Self, t.target), "tick", <<t.target>>)
    /\ UNCHANGED arrived

Next ==
  \/ AddAction
  \/ SeekTo
  \/ JumpToEnd
  \/ StartReplay
  \/ PauseReplay
  \/ ResumeReplay
  \/ SetSpeed
  \/ StartFastForward
  \/ StopReplay
  \/ Clear
  \/ Tick

Spec == Init /\ [][Next]_vars

\* Playback left alone: while an interval is live nothing but its callback
\* runs, and setInterval keeps calling the callback until it is cleared.
Setup ==
  /\ timers = {}
  /\ (AddAction \/ StartReplay \/ StartFastForward \/ SeekTo \/ Clear)

LiveNext ==
  \/ Setup
  \/ Tick

LiveSpec == Init /\ [][LiveNext]_vars /\ WF_vars(Tick)

\* ------------------------------------------------------------------ sync
\* A buffer filled through addActions alone, with lists in which ids repeat
\* and ids that are buffered already.
ActionIds == 1..MaxAdds
ActionLists ==
  UNION {[1..n -> ActionIds] : n \in 0..MaxBufferSize}

AddActions ==
  \E list \in ActionLists :
    /\ Len(arrived) + Len(PassedOn(Self, list)) <= MaxAdds
    /\ arrived' = arrived \o PassedOn(Self, list)
    /\ Becomes(addActions(Self, list), "addActions", list)

SyncNext == AddActions

SyncSpec == Init /\ [][SyncNext]_vars

\* ------------------------------------------------------------- late join
\* validateJoin on buffers of default capacity that hold n actions, none
\* applied, for n around the late-join threshold; the game start time and the
\* maximal age are constructor options, the clock is Date.now().
Times == 0..MaxTime
JoinCounts == {0, 1, LateJoinActionCount, LateJoinActionCount + 1}

JoinInit ==
  /\ \E n \in JoinCounts :
       /\ actions = [i \in 1..n |-> [id |-> i, applied |-> FALSE]]
       /\ arrived = [i \in 1..n |-> i]
       /\ lastOp = [op |-> IF n = 0 THEN "new" ELSE "addAction",
                    arg |-> << >>]
  /\ maxBufferSize = DEFAULT_MAX_BUFFER_SIZE
  /\ currentIndex = 0
  /\ state = "idle"
  /\ speed = 1
  /\ events = << >>
  /\ timers = {}
  /\ playbackInterval = << >>
  /\ handled = << >>
  /\ now \in Times
  /\ gameStartTime \in Times
  /\ maxGameAge \in Times
  /\ joinResult = << >>
  /\ ManaIdle
  /\ SaveIdle
  /\ TurnIdle
  /\ StackIdle
  /\ WrapIdle

ValidateJoin ==
  /\ joinResult' = <<validateJoin(actions, now)>>
  /\ UNCHANGED <<replayVars, now, gameStartTime, maxGameAge, manaVars,
                 saveVars, turnVars, stackVars,
                 wrapVars>>

SetGameStartTime ==
  \E timestamp \in Times :
    /\ gameStartTime' = timestamp
    /\ joinResult' = << >>
    /\ UNCHANGED <<replayVars, now, maxGameAge, manaVars, saveVars, turnVars, stackVars,
                 wrapVars>>

\* time passes
ClockAdvances ==
  /\ now < MaxTime
  /\ now' = now + 1
  /\ joinResult' = << >>
  /\ UNCHANGED <<replayVars, gameStartTime, maxGameAge, manaVars, saveVars,
                 turnVars, stackVars,
                 wrapVars>>

JoinNext ==
  \/ ValidateJoin
  \/ SetGameStartTime
  \/ ClockAdvances

JoinSpec == JoinInit /\ [][JoinNext]_vars

\* ================================================================ claims
Ids(acts) == [i \in 1..Len(acts) |-> acts[i].id]
LastN(seq, n) == SubSeq(seq, Len(seq) - n + 1, Len(seq))
\* the action the cursor ci designates in acts, if any
Designated(acts, ci) == IF HasIndex(acts, ci) THEN <<acts[ci + 1]>> ELSE << >>
AllApplied(acts) == \A i \in 1..Len(acts) : acts[i].applied

\* C1: after any sequence of addAction calls the buffer holds at most
\* maxBufferSize actions, and they are the most recently added ones in their
\* arrival order: an add beyond the capacity drops exactly the oldest entry.
C1_BufferKeepsLastM ==
  /\ Len(actions) <= maxBufferSize
  /\ Ids(actions) = LastN(arrived, Min(maxBufferSize, Len(arrived)))

\* maxBufferSize + 1 adds were made into a buffer of capacity 2 or more
C1_Witness ==
  /\ lastOp.op = "addAction"
  /\ maxBufferSize >= 2
  /\ Len(arrived) = maxBufferSize + 1
  /\ Len(actions) = maxBufferSize

\* C2: an addAction that evicts sets currentIndex to max(0, currentIndex - 1),
\* never below zero, and a cursor that was above 0 designates after the
\* eviction the action it designated in the buffer before the eviction.
C2_EvictionShiftsCursor ==
  [][(lastOp'.op = "addAction" /\ arrived' # arrived
        /\ Len(actions) + 1 > maxBufferSize)
      => LET pushed == Append(actions,
                [id |-> arrived'[Len(arrived')], applied |-> FALSE])
         IN /\ currentIndex' = Max(0, currentIndex - 1)
            /\ currentIndex' >= 0
            /\ currentIndex > 0
                 => Designated(actions', currentIndex')
                      = Designated(pushed, currentIndex)]_vars

\* an eviction has just happened and the cursor, above 0 before it, still
\* points into the buffer
C2_Witness ==
  /\ lastOp.op = "addAction"
  /\ Len(arrived) = maxBufferSize + 1
  /\ currentIndex > 0
  /\ HasIndex(actions, currentIndex)

\* C3 as stated: every tick in state playing or fast-forwarding applies
\* exactly one buffered action, the one at currentIndex, and advances
\* currentIndex by one.
C3_EveryTickAppliesOne ==
  [][(lastOp'.op = "tick" /\ state \in {"playing", "fast-forwarding"})
      => /\ HasIndex(actions, currentIndex)
         /\ Len(handled') = 1
         /\ handled'[1].index = currentIndex
         /\ actions'[currentIndex + 1].applied
         /\ currentIndex' = currentIndex + 1]_vars

\* C3 (amended): a tick at which currentIndex does not exceed the target of
\* its interval advances currentIndex by exactly one and applies the action
\* at currentIndex when there is one (marking only that action applied and
\* passing it to the handler with that index), none when currentIndex
\* designates no action; a tick at which currentIndex exceeds the target
\* applies nothing, leaves the cursor and ends in state completed.  Two
\* ticks in a row that both apply deliver consecutive indices.
C3_TickAppliesInOrder ==
  [][lastOp'.op = "tick"
      => LET target == lastOp'.arg[1]
         IN /\ IF currentIndex > target
               THEN /\ handled' = << >>
                    /\ actions' = actions
                    /\ currentIndex' = currentIndex
                    /\ state' = "completed"
               ELSE /\ currentIndex' = currentIndex + 1
                    /\ state' = state
                    /\ IF HasIndex(actions, currentIndex)
                       THEN /\ handled' =
                                 <<[id |-> actions[currentIndex + 1].id,
                                    index |-> currentIndex]>>
                            /\ actions' = [actions EXCEPT
                                 ![currentIndex + 1].applied = TRUE]
                       ELSE /\ handled' = << >>
                            /\ actions' = actions
            /\ (lastOp.op = "tick" /\ handled # << >> /\ handled' # << >>)
                 => handled'[1].index = handled[1].index + 1]_vars

\* two ticks in a row have applied the actions at indices 0 and 1
C3_Witness ==
  /\ lastOp.op = "tick"
  /\ state \in {"playing", "fast-forwarding"}
  /\ handled # << >>
  /\ handled[1].index = 1
  /\ currentIndex = 2
  /\ AllApplied(actions)

\* a replay of n buffered actions has just been started from index 0 and its
\* interval is the only live one
C4_Started(n) ==
  /\ lastOp.op = "startReplay"
  /\ lastOp.arg \in {<< >>, <<0>>}
  /\ Len(actions) = n
  /\ Cardinality(timers) = 1

C4_Done(n) ==
  /\ state = "completed"
  /\ timers = {}
  /\ playbackInterval = << >>
  /\ Len(actions) = n
  /\ AllApplied(actions)

C5_NoTimerAfterPauseOrStop ==
  lastOp.op \in {"pauseReplay", "stopReplay"} => timers = {}

C7_FastForward ==
  /\ [](\A targetIndex \in OptIndexInputs :
          Nullish(targetIndex, Len(actions) - 1) <= currentIndex
            => startFastForward(Self, targetIndex) = Self)
  /\ [][lastOp'.op = "startFastForward"
         => LET target == Nullish(lastOp'.arg, Len(actions) - 1)
                kept == {t \in timers : <<t.id>> # playbackInterval}
            IN /\ target > currentIndex
               /\ speed' = 16
               /\ state' = "fast-forwarding"
               /\ currentIndex' = currentIndex
               /\ actions' = actions
               /\ handled' = << >>
               /\ events' = <<[type |-> "fast-forward-started",
                               data |-> <<target>>]>>
               /\ playbackInterval' # << >>
               /\ \E t \in timers' :
                    /\ <<t.id>> = playbackInterval'
                    /\ t.target = target
                    /\ timers' = kept \cup {t}]_vars

\* a fast-forward has been started while a replay was playing
C7_Witness ==
  /\ lastOp.op = "startFastForward"
  /\ state = "fast-forwarding"
  /\ speed = 16
  /\ Len(actions) >= 2
  /\ currentIndex >= 1

\* C8: after seekTo(k) with 0 <= k < action count, getProgress().appliedActions
\* is k + 1 and currentIndex is k.
C8_SeekProgress ==
  lastOp.op = "seekTo"
    => /\ getProgress(Self).appliedActions = lastOp.arg[1] + 1
       /\ currentIndex = lastOp.arg[1]

\* C9: seekTo with an index below 0 or at or above the action count, and
\* startReplay on an empty buffer, leave actions, applied flags, currentIndex,
\* state, speed, intervals and event log as they are and call no handler.
C9_RejectedCallsChangeNothing ==
  /\ \A index \in IndexInputs :
       (index < 0 \/ index >= Len(actions)) => seekTo(Self, index) = Self
  /\ \A fromIndex \in OptIndexInputs :
       Len(actions) = 0 => startReplay(Self, fromIndex) = Self

\* a buffer that is empty while an interval is live and the state is
\* fast-forwarding: every seekTo and every startReplay is rejected here
C9_Witness ==
  /\ Len(actions) = 0
  /\ state = "fast-forwarding"
  /\ timers # {}
  /\ speed = 16

\* C10: every buffered action below currentIndex is applied and every one at
\* or above currentIndex is not.
C10_CursorSeparatesApplied ==
  \A i \in 0..(Len(actions) - 1) :
    actions[i + 1].applied <=> (i < currentIndex)

\* --------------------------------------------------------- cost parsing
\* parseManaCost on every cost of up to MaxSymbols braced symbols: a one- and
\* a two-digit number, the five colours, X, snow, and the colourless symbol
\* {C}, which parseManaCost does not know.
SymbolBodies ==
  {<<"2">>, <<"1", "0">>, <<"W">>, <<"U">>, <<"B">>, <<"R">>, <<"G">>,
   <<"X">>, <<"S">>, <<"C">>}

RECURSIVE CostString(_)
CostString(symbols) ==
  IF symbols = << >> THEN << >>
  ELSE <<"{">> \o Head(symbols) \o <<"}">> \o CostString(Tail(symbols))

Costs ==
  {CostString(symbols) :
     symbols \in UNION {[1..n -> SymbolBodies] : n \in 0..MaxSymbols}}

ParseInit ==
  /\ manaCost \in Costs
  /\ request = << >>
  /\ TapIdle
  /\ ReplayIdle
  /\ JoinIdle
  /\ SaveIdle
  /\ TurnIdle
  /\ StackIdle
  /\ WrapIdle

ParseManaCost ==
  /\ request' = <<parseManaCost(manaCost)>>
  /\ UNCHANGED <<manaCost, battlefield, manaSources, manaPool, autoTap,
                 payment, remainingPool>>
  /\ UNCHANGED <<replayVars, joinVars, saveVars, turnVars, stackVars,
                 wrapVars>>

ParseNext == ParseManaCost

ParseSpec == ParseInit /\ [][ParseNext]_vars

\* ------------------------------------------------------------ auto-tap
\* A cast attempt: the cost is parsed, the sources are the caller's own
\* ManaSource objects or are read off the battlefield by getManaSources, and
\* autoTapLands is asked for a payment.
Land(name, nameWords, typeWords, isTapped) ==
  <<[name |-> name, nameWords |-> nameWords, type_line |-> typeWords,
     isTapped |-> isTapped]>>

\* "Basic Land - Island" and so on; in lower case "island" includes "land"
Island == Land("Island", {"island", "land"}, {"land", "island"}, FALSE)
Plains == Land("Plains", {"plains"}, {"land", "plains"}, FALSE)
Swamp == Land("Swamp", {"swamp"}, {"land", "swamp"}, FALSE)
TappedIsland == Land("Island", {"island", "land"}, {"land", "island"}, TRUE)
\* "Basic Land"
Wastes == Land("Wastes", {}, {"land"}, FALSE)
\* "Legendary Land"
TolarianAcademy == Land("Tolarian Academy", {"tolarian"}, {"land"}, FALSE)
\* a land whose type line carries its ability: "Land - Tap: add {U}"
Spring == Land("Spring", {}, {"land", "tap: add", "{u}"}, FALSE)
\* "Creature - Bear"
GrizzlyBears == Land("Grizzly Bears", {}, {}, FALSE)

\* << >>: a cardId of the zone that the card map does not know
CardEntries ==
  {Island, Plains, Swamp, TappedIsland, Wastes, TolarianAcademy, Spring,
   GrizzlyBears, << >>}

Battlefields == UNION {[1..n -> CardEntries] : n \in 1..MaxCards}

\* ManaSource objects as a caller writes them
Source(name, produces, canProduceColor, producesColorless) ==
  [cardName |-> name, isTapped |-> FALSE, canProduceColor |-> canProduceColor,
   produces |-> produces, isSnow |-> FALSE,
   producesColorless |-> producesColorless]

SourceKinds ==
  {Source("White", <<"white">>, TRUE, FALSE),
   Source("Blue", <<"blue">>, TRUE, FALSE),
   Source("Black", <<"black">>, TRUE, FALSE),
   Source("WhiteBlue", <<"white", "blue">>, TRUE, FALSE),
   Source("BlackOrAny", <<"black", "colorless">>, TRUE, TRUE),
   Source("Colorless", <<"colorless">>, FALSE, TRUE)}

\* the i-th source of a list has cardId i
SourceLists ==
  {[i \in 1..Len(kinds) |->
      [cardId |-> i, cardName |-> kinds[i].cardName,
       isTapped |-> kinds[i].isTapped,
       canProduceColor |-> kinds[i].canProduceColor,
       produces |-> kinds[i].produces, isSnow |-> kinds[i].isSnow,
       producesColorless |-> kinds[i].producesColorless]] :
     kinds \in UNION {[1..n -> SourceKinds] : n \in 0..MaxSources}}

TapCosts ==
  {CostString(symbols) :
     symbols \in {<< >>, <<<<"1">>, <<"U">>>>, <<<<"B">>>>, <<<<"U">>, <<"B">>>>,
                  <<<<"W">>, <<"U">>>>, <<<<"2">>>>, <<<<"U">>, <<"U">>>>,
                  <<<<"2">>, <<"B">>>>}}

TapPools == {EmptyPool, [EmptyPool EXCEPT !.blue = 1]}

TapInit ==
  /\ manaCost \in TapCosts
  /\ request = << >>
  /\ \/ battlefield = << >> /\ manaSources \in SourceLists
     \/ battlefield \in Battlefields /\ manaSources = << >>
  /\ manaPool \in TapPools
  /\ autoTap = << >>
  /\ payment = << >>
  /\ remainingPool = << >>
  /\ ReplayIdle
  /\ JoinIdle
  /\ SaveIdle
  /\ TurnIdle
  /\ StackIdle
  /\ WrapIdle

TapParseManaCost ==
  /\ request = << >>
  /\ ParseManaCost

GetManaSources ==
  /\ battlefield # << >>
  /\ manaSources' = getManaSources(battlefield)
  /\ UNCHANGED <<manaCost, request, battlefield, manaPool, autoTap,
                 payment, remainingPool>>
  /\ UNCHANGED <<replayVars, joinVars, saveVars, turnVars, stackVars,
                 wrapVars>>

AutoTapLands ==
  /\ request # << >>
  /\ LET out == autoTapLands(manaPool, manaSources, request[1])
     IN /\ autoTap' = <<[manaPool |-> manaPool, manaSources |-> manaSources,
                         request |-> request[1], result |-> out.result]>>
        /\ manaSources' = out.manaSources
  /\ UNCHANGED <<manaCost, request, battlefield, manaPool,
                 payment, remainingPool>>
  /\ UNCHANGED <<replayVars, joinVars, saveVars, turnVars, stackVars,
                 wrapVars>>

TapNext ==
  \/ TapParseManaCost
  \/ GetManaSources
  \/ AutoTapLands

TapSpec == TapInit /\ [][TapNext]_vars

\* -------------------------------------------------------- remaining pool
\* calculateRemainingPool on pools of 0..MaxMana of each kind of mana and on
\* payments of up to MaxSelections selections, each of one mana (what
\* autoTapLands selects) or of more than any pool holds.
Pools ==
  {[white |-> w, blue |-> o, black |-> o, red |-> o, green |-> o,
    colorless |-> c, generic |-> o] : w, c, o \in 0..MaxMana}

Selections ==
  {[cardId |-> 1, cardName |-> "Land", color |-> color, amount |-> amount] :
     color \in ManaColor, amount \in {1, MaxMana + 1}}

Payments == UNION {[1..n -> Selections] : n \in 0..MaxSelections}

PoolInit ==
  /\ manaPool \in Pools
  /\ payment \in Payments
  /\ remainingPool = << >>
  /\ manaCost = << >>
  /\ request = << >>
  /\ battlefield = << >>
  /\ manaSources = << >>
  /\ autoTap = << >>
  /\ ReplayIdle
  /\ JoinIdle
  /\ SaveIdle
  /\ TurnIdle
  /\ StackIdle
  /\ WrapIdle

CalculateRemainingPool ==
  /\ LET out == calculateRemainingPool(manaPool, payment)
     IN /\ remainingPool' = <<out.result>>
        /\ manaPool' = out.originalPool
  /\ UNCHANGED <<manaCost, request, battlefield, manaSources, autoTap, payment>>
  /\ UNCHANGED <<replayVars, joinVars, saveVars, turnVars, stackVars,
                 wrapVars>>

PoolNext == CalculateRemainingPool

PoolSpec == PoolInit /\ [][PoolNext]_vars

\* ------------------------------------------------- auto-save lifecycle
\* A game session: the game comes into being, changes and ends, the replay
\* may or may not be recorded, and the rules events call the handlers of the
\* lifecycle object.  A handler is an async function: it makes its calls at
\* once and the promise it returns settles as the promise of triggerAutoSave
\* does, which belongs to the auto-save hook; without a call it is fulfilled.
GameStates == {<< >>, <<"game at turn 1">>, <<"game at turn 2">>}
Replays == {<< >>, <<"replay">>}

SaveInit ==
  /\ cleanupOnEnd \in BOOLEAN
  /\ gameState = << >>
  /\ replay = << >>
  /\ saved = << >>
  /\ cleaned = 0
  /\ handler = << >>
  /\ ReplayIdle
  /\ JoinIdle
  /\ ManaIdle
  /\ TurnIdle
  /\ StackIdle
  /\ WrapIdle

GameChanges ==
  /\ gameState' \in GameStates
  /\ replay' \in Replays
  /\ saved' = << >>
  /\ cleaned' = 0
  /\ handler' = << >>
  /\ UNCHANGED <<cleanupOnEnd, replayVars, joinVars, manaVars, turnVars, stackVars,
                 wrapVars>>

\* the handler name was called and asked calls of the autoSave object
Handles(name, calls) ==
  /\ saved' = calls.saved
  /\ cleaned' = calls.cleaned
  /\ \E settles \in {"fulfilled", "rejected"} :
       handler' = <<[name |-> name,
                     promise |-> IF calls.saved # << >>
                                 THEN settles ELSE "fulfilled"]>>
  /\ UNCHANGED <<cleanupOnEnd, gameState, replay>>
  /\ UNCHANGED <<replayVars, joinVars, manaVars, turnVars, stackVars,
                 wrapVars>>

OnTurnEnd == Handles("onTurnEnd", onTurnEnd(gameState, replay))
OnCombatEnd == Handles("onCombatEnd", onCombatEnd(gameState, replay))
OnPassPriority == Handles("onPassPriority", onPassPriority(gameState, replay))
OnBeforeModal == Handles("onBeforeModal", onBeforeModal(gameState, replay))
OnCardPlayed == Handles("onCardPlayed", onCardPlayed(gameState, replay))
OnSpellResolved ==
  Handles("onSpellResolved", onSpellResolved(gameState, replay))
OnPlayerGainedLife ==
  Handles("onPlayerGainedLife", onPlayerGainedLife(gameState, replay))
OnCreatureDied == Handles("onCreatureDied", onCreatureDied(gameState, replay))
OnGameEnd == Handles("onGameEnd", onGameEnd(cleanupOnEnd))
OnGameQuit == Handles("onGameQuit", onGameQuit(cleanupOnEnd))

SaveNext ==
  \/ GameChanges
  \/ OnTurnEnd
  \/ OnCombatEnd
  \/ OnPassPriority
  \/ OnBeforeModal
  \/ OnCardPlayed
  \/ OnSpellResolved
  \/ OnPlayerGainedLife
  \/ OnCreatureDied
  \/ OnGameEnd
  \/ OnGameQuit

SaveSpec == SaveInit /\ [][SaveNext]_vars

\* ------------------------------------------------------------ turn order
\* Games of 2..MaxSeats players seated clockwise or in the opposite order,
\* started at any seat, in which turns and extra turns are started; beside
\* them the game board page, mounted with its default of two players, whose
\* player count is switched and whose turn is advanced.
Names == <<"A", "B", "C", "D", "E", "F">>

Clockwise(n) == [i \in 1..n |-> Names[i]]
Reversed(n) == [i \in 1..n |-> Names[n + 1 - i]]
TurnOrders == UNION {{Clockwise(n), Reversed(n)} : n \in 2..MaxSeats}
Turns ==
  UNION {{createTurn(order, i) : i \in 0..(Len(order) - 1)} :
           order \in TurnOrders}
Seated(t) == {t.turnOrder[i] : i \in 1..Len(t.turnOrder)}

TurnInit ==
  /\ turn \in Turns
  /\ players = newPlayers(2)
  /\ currentTurnIndex = 0
  /\ turnOrderCall = << >>
  /\ StackIdle
  /\ WrapIdle
  /\ ReplayIdle
  /\ JoinIdle
  /\ ManaIdle
  /\ SaveIdle

StartNextTurn ==
  /\ turn.turnNumber < MaxTurns
  /\ turn' = startNextTurn(turn, << >>)
  /\ UNCHANGED <<players, currentTurnIndex, turnOrderCall>>
  /\ UNCHANGED <<replayVars, joinVars, manaVars, saveVars, stackVars,
                 wrapVars>>

StartExtraTurn ==
  /\ turn.turnNumber < MaxTurns
  /\ \E p \in Seated(turn) : turn' = startNextTurn(turn, <<p>>)
  /\ UNCHANGED <<players, currentTurnIndex, turnOrderCall>>
  /\ UNCHANGED <<replayVars, joinVars, manaVars, saveVars, stackVars,
                 wrapVars>>

SetPlayerCount ==
  /\ \E playerCount \in PlayerCount : players' = newPlayers(playerCount)
  /\ currentTurnIndex' = 0
  /\ UNCHANGED <<turn, turnOrderCall>>
  /\ UNCHANGED <<replayVars, joinVars, manaVars, saveVars, stackVars,
                 wrapVars>>

AdvanceTurn ==
  /\ players' = advanceTurn(currentTurnIndex, players).players
  /\ currentTurnIndex' = advanceTurn(currentTurnIndex, players).currentTurnIndex
  /\ UNCHANGED <<turn, turnOrderCall>>
  /\ UNCHANGED <<replayVars, joinVars, manaVars, saveVars, stackVars,
                 wrapVars>>

TurnNext ==
  \/ StartNextTurn
  \/ StartExtraTurn
  \/ SetPlayerCount
  \/ AdvanceTurn

TurnSpec == TurnInit /\ [][TurnNext]_vars

\* ------------------------------------------------ creating a turn order
\* createTurnOrder is called with the ids of 2..MaxSeats players, in either
\* direction round the table, each of the three types, and with "custom"
\* an order that is an arrangement of the players, leaves the last player
\* out, or seats the first player twice.
TurnOrderTypes == {"clockwise", "random", "custom"}

CustomOrders(playerIds) ==
  shuffle(playerIds)
    \cup {SubSeq(playerIds, 1, Len(playerIds) - 1),
          [playerIds EXCEPT ![Len(playerIds)] = playerIds[1]]}

CreateTurnOrder ==
  /\ \E playerIds \in TurnOrders, turnOrderType \in TurnOrderTypes :
       \E customOrder \in IF turnOrderType = "custom"
                           THEN CustomOrders(playerIds) ELSE {<< >>},
          shuffled \in IF turnOrderType = "random"
                        THEN shuffle(playerIds) ELSE {<< >>} :
         turnOrderCall' =
           <<[playerIds |-> playerIds,
              turnOrderType |-> turnOrderType,
              customOrder |-> customOrder,
              result |-> createTurnOrder(playerIds, turnOrderType, customOrder,
                                         shuffled)]>>
  /\ UNCHANGED <<turn, players, currentTurnIndex>>
  /\ UNCHANGED <<replayVars, joinVars, manaVars, saveVars, stackVars,
                 wrapVars>>

OrderInit ==
  /\ TurnIdle
  /\ StackIdle
  /\ WrapIdle
  /\ ReplayIdle
  /\ JoinIdle
  /\ ManaIdle
  /\ SaveIdle

OrderNext == CreateTurnOrder

OrderSpec == OrderInit /\ [][OrderNext]_vars

\* ------------------------------------------------------ the stack in use
\* Two players put up to MaxPushes spells and abilities on the stack and
\* the top item resolves, in any interleaving; timestamp is the number of
\* the push.
StackItemTypes == {"spell", "ability"}
Controllers == {"A", "B"}

Push ==
  /\ pushCount < MaxPushes
  /\ \E type \in StackItemTypes, controllerId \in Controllers :
       stack' = push(stack, [id |-> pushCount + 1,
                             type |-> type,
                             controllerId |-> controllerId,
                             isCountered |-> FALSE,
                             timestamp |-> pushCount + 1])
  /\ pushCount' = pushCount + 1
  /\ stackOp' = [op |-> "push", removed |-> << >>]
  /\ UNCHANGED <<replayVars, joinVars, manaVars, saveVars, turnVars, wrapVars>>

Resolve ==
  /\ stack' = resolve(stack).stack
  /\ stackOp' = [op |-> "resolve", removed |-> resolve(stack).resolved]
  /\ UNCHANGED pushCount
  /\ UNCHANGED <<replayVars, joinVars, manaVars, saveVars, turnVars, wrapVars>>

StackInit ==
  /\ StackIdle
  /\ WrapIdle
  /\ TurnIdle
  /\ ReplayIdle
  /\ JoinIdle
  /\ ManaIdle
  /\ SaveIdle

StackNext ==
  \/ Push
  \/ Resolve

StackSpec == StackInit /\ [][StackNext]_vars

\* ------------------------------------------- wrapped game actions in use
\* A wrapper of either kind is called while no call of it is under way; the
\* action it wraps returns a result or throws, the promise of
\* triggerAutoSave fulfils or rejects, and the game changes at any time.
WrapperKinds == {"withAutoSaveAfter", "withAutoSaveBefore"}
WrapTriggers == {"end_of_turn", "card_played"}

ActionOutcomes ==
  {Fulfilled("result of the action"),
   [status |-> "rejected", value |-> "error of the action"]}

SaveOutcomes ==
  {Fulfilled("saved"), [status |-> "rejected", value |-> "error of the save"]}

\* the step the called wrapper takes
WrapperStep(w, pc, awaited) ==
  IF w.kind = "withAutoSaveAfter"
  THEN withAutoSaveAfter(pc, w.result, awaited, w.trigger, gameState, replay)
  ELSE withAutoSaveBefore(pc, w.result, awaited, w.trigger, gameState, replay)

Takes(w, step, seen) ==
  /\ wrapped' = <<[w EXCEPT !.result = step.result]>>
  /\ wrapPc' = step.pc
  /\ wrapLog' = seen \o step.does
  /\ wrapResult' = step.settled
  /\ saved' = step.saved
  /\ UNCHANGED <<cleanupOnEnd, gameState, replay, cleaned, handler>>
  /\ UNCHANGED <<replayVars, joinVars, manaVars, turnVars, stackVars>>

CallWrapped ==
  /\ wrapPc \in {"idle", "done"}
  /\ \E kind \in WrapperKinds, trigger \in WrapTriggers :
       LET w == [kind |-> kind, trigger |-> trigger, result |-> << >>]
       IN  Takes(w, WrapperStep(w, "called", << >>), << >>)

ActionSettles ==
  /\ wrapPc = "await action"
  /\ \E awaited \in ActionOutcomes :
       Takes(wrapped[1], WrapperStep(wrapped[1], wrapPc, awaited),
             Append(wrapLog, IF awaited.status = "fulfilled"
                             THEN "action returns" ELSE "action throws"))

SaveSettles ==
  /\ wrapPc = "await save"
  /\ \E awaited \in SaveOutcomes :
       Takes(wrapped[1], WrapperStep(wrapped[1], wrapPc, awaited),
             Append(wrapLog, IF awaited.status = "fulfilled"
                             THEN "save returns" ELSE "save fails"))

WrapInit ==
  /\ WrapIdle
  /\ SaveIdle
  /\ StackIdle
  /\ TurnIdle
  /\ ReplayIdle
  /\ JoinIdle
  /\ ManaIdle

WrapNext ==
  \/ GameChanges
  \/ CallWrapped
  \/ ActionSettles
  \/ SaveSettles

WrapSpec == WrapInit /\ [][WrapNext]_vars

\* C11: validateJoin returns canJoin false exactly when now - gameStartTime
\* is greater than maxGameAge; otherwise canJoin is true, with the late-join
\* warning as reason when more than 500 actions are buffered and with no
\* reason when 500 or fewer are; the call changes no field of the buffer.
C11_ValidateJoin ==
  /\ [](joinResult # << >>
         => LET r == joinResult[1]
            IN /\ (r.canJoin = FALSE) <=> (now - gameStartTime > maxGameAge)
               /\ r.canJoin \in BOOLEAN
               /\ (r.canJoin /\ Len(actions) > 500)
                    => r.reason = <<"Warning: Late join to advanced game">>
               /\ (r.canJoin /\ Len(actions) <= 500) => r.reason = << >>)
  /\ [][joinResult' # << >>
         => UNCHANGED <<replayVars, gameStartTime, maxGameAge>>]_vars

\* a join into a game that is not too old, with 501 buffered actions, was
\* answered with the warning
C11_Witness ==
  /\ joinResult # << >>
  /\ joinResult[1].canJoin
  /\ joinResult[1].reason # << >>
  /\ Len(actions) = 501
  /\ now - gameStartTime = maxGameAge

\* the symbols of a cost string: the texts between { and }
RECURSIVE SymbolsOf(_, _, _)
SymbolsOf(str, i, body) ==
  IF i > Len(str) THEN << >>
  ELSE IF str[i] = "{" THEN SymbolsOf(str, i + 1, << >>)
  ELSE IF str[i] = "}" THEN <<body>> \o SymbolsOf(str, i + 1, << >>)
  ELSE SymbolsOf(str, i + 1, Append(body, str[i]))

IsNumeric(body) == body # << >> /\ \A i \in 1..Len(body) : IsDigit(body[i])
Occurrences(symbols, body) ==
  Cardinality({i \in 1..Len(symbols) : symbols[i] = body})

RECURSIVE SumNumeric(_)
SumNumeric(symbols) ==
  IF symbols = << >> THEN 0
  ELSE (IF IsNumeric(Head(symbols))
        THEN LeadingDigits(Head(symbols), 1, 0) ELSE 0)
       + SumNumeric(Tail(symbols))

ColourLetter ==
  [white |-> "W", blue |-> "U", black |-> "B", red |-> "R", green |-> "G"]

\* C12: for every cost written as a sequence of braced symbols parseManaCost
\* returns genericCost = the sum of the numeric symbols, requiredColors = the
\* count of each colour symbol, totalCost = genericCost + the number of
\* colour symbols, hasXCost true iff an X symbol occurs and isSnowCost true
\* iff an S symbol occurs; unknown symbols contribute nothing.
C12_ParseManaCost ==
  request # << >>
    => LET r == request[1]
           symbols == SymbolsOf(manaCost, 1, << >>)
           colours == {c \in DOMAIN ColourLetter :
                         Occurrences(symbols, <<ColourLetter[c]>>) > 0}
       IN /\ r.genericCost = SumNumeric(symbols)
          /\ \A c \in DOMAIN ColourLetter :
               GetOr0(r.requiredColors, c)
                 = Occurrences(symbols, <<ColourLetter[c]>>)
          /\ {r.requiredColors[i][1] : i \in 1..Len(r.requiredColors)}
               = colours
          /\ r.totalCost = r.genericCost + SumValues(r.requiredColors)
          /\ r.hasXCost <=> Occurrences(symbols, <<"X">>) > 0
          /\ r.isSnowCost <=> Occurrences(symbols, <<"S">>) > 0

\* the sources of a list that produce colour c
Producers(sources, c) ==
  {i \in 1..Len(sources) : InSeq(sources[i].produces, c)}

\* the required colours of which req needs more than sources can give
ShortColours(sources, req) ==
  {c \in ManaColor :
     GetOr0(req.requiredColors, c) > Cardinality(Producers(sources, c))}

\* C13: when some required colour cannot be satisfied by the sources handed
\* to autoTapLands, the call fails entirely: canPay is false, the sources
\* list is empty (no partial payment), and the explanation is the one for
\* unproducible colours and names every such colour, and only colours the
\* cost requires.
C13_UnmetColourFailsEntirely ==
  autoTap # << >>
    => LET call == autoTap[1]
           short == ShortColours(call.manaSources, call.request)
       IN short # {}
            => /\ call.result.canPay = FALSE
               /\ call.result.sources = << >>
               /\ call.result.explanation[1] = "Cannot produce required colors"
               /\ \A c \in short : InSeq(call.result.explanation[2], c)
               /\ \A c \in ManaColor :
                    InSeq(call.result.explanation[2], c)
                      => GetOr0(call.request.requiredColors, c) > 0

\* a cost requiring blue and black was refused for black alone, after the
\* one blue source had been taken out of the array for the blue
C13_Witness ==
  /\ autoTap # << >>
  /\ autoTap[1].result.canPay = FALSE
  /\ autoTap[1].result.sources = << >>
  /\ autoTap[1].result.explanation
       = <<"Cannot produce required colors", <<"black">>>>
  /\ GetOr0(autoTap[1].request.requiredColors, "blue") = 1
  /\ Len(autoTap[1].manaSources) = 1
  /\ manaSources = << >>

\* C14: for the cost {1}{U}, an empty pool and the sources getManaSources
\* reads off a battlefield of one untapped Island and one untapped Plains,
\* autoTapLands returns canPay true and two selections: the Island tapped
\* for blue and the Plains tapped for the generic mana.
C14_IslandAndPlainsPay ==
  (/\ autoTap # << >>
   /\ battlefield \in {<<Island, Plains>>, <<Plains, Island>>}
   /\ autoTap[1].manaSources = getManaSources(battlefield)
   /\ autoTap[1].manaPool = EmptyPool
   /\ manaCost = CostString(<<<<"1">>, <<"U">>>>))
    => LET result == autoTap[1].result
       IN /\ result.canPay
          /\ Len(result.sources) = 2
          /\ \E i \in 1..2 :
               /\ result.sources[i].cardName = "Island"
               /\ result.sources[i].color = "blue"
          /\ \E i \in 1..2 : result.sources[i].cardName = "Plains"

\* what a payment selects of colour c in all
RECURSIVE Selected(_, _)
Selected(selections, c) ==
  IF selections = << >> THEN 0
  ELSE (IF Head(selections).color = c THEN Head(selections).amount ELSE 0)
       + Selected(Tail(selections), c)

\* C15: for any non-negative pool and any payment, calculateRemainingPool
\* returns a pool in which every colour holds what the original held less
\* the amounts selected of that colour, zero where that would be negative,
\* so that every quantity is a non-negative integer; generic mana is not
\* touched and the original pool object is left as it was.
C15_RemainingPoolClampsAtZero ==
  /\ [](remainingPool # << >>
         => LET r == remainingPool[1]
            IN /\ \A c \in ManaColor :
                    /\ r[c] = Max(0, manaPool[c] - Selected(payment, c))
                    /\ r[c] \in Nat
               /\ r.generic = manaPool.generic
               /\ DOMAIN r = DOMAIN manaPool)
  /\ [][remainingPool' # << >> => manaPool' = manaPool]_vars

\* a payment of two selections has emptied white, of which it selected more
\* than the pool held, and has left some colourless mana
C15_Witness ==
  /\ remainingPool # << >>
  /\ Len(payment) = 2
  /\ Selected(payment, "white") > manaPool.white
  /\ manaPool.white > 0
  /\ remainingPool[1].white = 0
  /\ Selected(payment, "colorless") = 1
  /\ remainingPool[1].colorless = manaPool.colorless - 1
  /\ remainingPool[1].colorless > 0

\* the AutoSaveEvent each saving handler stands for
EventOf ==
  [onTurnEnd |-> "turn_end", onCombatEnd |-> "combat_end",
   onPassPriority |-> "pass_priority", onBeforeModal |-> "before_modal",
   onCardPlayed |-> "card_played", onSpellResolved |-> "spell_resolved",
   onPlayerGainedLife |-> "player_gained_life",
   onCreatureDied |-> "creature_died"]

\* C16: each of the eight event handlers, when getGameState returns a state,
\* calls triggerAutoSave exactly once, with the trigger EVENT_TO_TRIGGER
\* gives for its event, that state and what getReplay returns; when
\* getGameState returns null it makes no call and its promise is fulfilled.
C16_HandlersSaveOnceWithOwnTrigger ==
  (handler # << >> /\ handler[1].name \in DOMAIN EventOf)
    => IF gameState # << >>
       THEN /\ saved =
                 <<[trigger |-> EVENT_TO_TRIGGER[EventOf[handler[1].name]][1],
                    gameState |-> gameState[1], replay |-> replay]>>
            /\ cleaned = 0
       ELSE /\ saved = << >>
            /\ cleaned = 0
            /\ handler[1].promise = "fulfilled"

\* onCombatEnd was called during a game and saved once, as after_combat
C16_Witness ==
  /\ handler # << >>
  /\ handler[1].name = "onCombatEnd"
  /\ gameState = <<"game at turn 2">>
  /\ Len(saved) = 1
  /\ saved[1].trigger = "after_combat"

\* C17: onGameEnd and onGameQuit call cleanupAutoSaves (once) if and only
\* if cleanupOnEnd is true and never call triggerAutoSave; no other handler
\* calls cleanupAutoSaves.
C17_CleanupOnlyOnEndWhenConfigured ==
  handler # << >>
    => IF handler[1].name \in {"onGameEnd", "onGameQuit"}
       THEN /\ cleanupOnEnd => cleaned = 1
            /\ ~cleanupOnEnd => cleaned = 0
            /\ saved = << >>
       ELSE cleaned = 0

\* onGameQuit was called during a game, with cleanupOnEnd false, and purged
\* nothing
C17_Witness ==
  /\ handler # << >>
  /\ handler[1].name = "onGameQuit"
  /\ ~cleanupOnEnd
  /\ gameState # << >>
  /\ cleaned = 0
  /\ saved = << >>

\* the Turns that n successive normal turn starts produce from t
RECURSIVE Starts(_, _)
Starts(t, n) ==
  IF n = 0 THEN << >>
  ELSE <<startNextTurn(t, << >>)>> \o Starts(startNextTurn(t, << >>), n - 1)

\* the players that n applications of getNextPlayerInTurnOrder return, each
\* applied to the Turn in which the player returned before is the active one
RECURSIVE NextPlayers(_, _)
NextPlayers(t, n) ==
  IF n = 0 THEN << >>
  ELSE <<getNextPlayerInTurnOrder(t)>>
         \o NextPlayers(startNextTurn(t, << >>), n - 1)

\* the page states that n clicks on the advance button produce
RECURSIVE Advances(_, _, _)
Advances(index, ps, n) ==
  IF n = 0 THEN << >>
  ELSE LET a == advanceTurn(index, ps)
       IN  <<a>> \o Advances(a.currentTurnIndex, a.players, n - 1)

\* C18: every turn start raises roundNumber by exactly 1 when it moves
\* activePlayerIndex on to 0 and leaves roundNumber alone otherwise, an
\* extra turn included (it moves no index); hence N normal starts from any
\* Turn of N seats raise the round exactly once, and from [A,B,C,D] at A
\* four starts give the players B, C, D, A and the rounds 1, 1, 1, 2.
C18_RoundNumberFollowsSeatZero ==
  /\ [][
        turn' # turn =>
          /\ turn'.turnNumber = turn.turnNumber + 1
          /\ turn'.roundNumber =
               IF /\ turn'.activePlayerIndex = 0
                  /\ turn'.activePlayerIndex # turn.activePlayerIndex
               THEN turn.roundNumber + 1
               ELSE turn.roundNumber
     ]_vars
  /\ [](LET N == Len(turn.turnOrder)
            s == <<turn>> \o Starts(turn, N)
        IN  /\ s[N + 1].roundNumber = turn.roundNumber + 1
            /\ Cardinality({i \in 1..N :
                              s[i + 1].roundNumber # s[i].roundNumber}) = 1
            /\ \A i \in 1..N :
                 s[i + 1].roundNumber # s[i].roundNumber
                   <=> s[i + 1].activePlayerIndex = 0)
  /\ [](LET s == Starts(createTurn(<<"A", "B", "C", "D">>, 0), 4)
        IN  /\ [i \in 1..4 |-> s[i].activePlayerId] = <<"B", "C", "D", "A">>
            /\ [i \in 1..4 |-> s[i].roundNumber] = <<1, 1, 1, 2>>)

\* four turns were started in the game of A, B, C, D, one of them an extra
\* turn of C out of sequence, and the round went from 1 to 2
C18_Witness ==
  /\ turn.turnOrder = <<"A", "B", "C", "D">>
  /\ turn.turnNumber = 5
  /\ turn.roundNumber = 2
  /\ turn.activePlayerIndex = 0
  /\ turn.activePlayerId = "C"

C20_SoleOpponentIsBothNeighbours ==
  /\ Len(turn.turnOrder) = 2 =>
       \A p, q \in Seated(turn) :
         p # q => /\ isLeftNeighbor(turn, q, p)
                  /\ isRightNeighbor(turn, q, p)
  /\ LET t == createTurn(<<"A", "B">>, 0)
     IN  /\ isLeftNeighbor(t, "B", "A")
         /\ isRightNeighbor(t, "B", "A")

\* a game of A and B in its second round
C20_Witness ==
  /\ turn.turnOrder = <<"A", "B">>
  /\ turn.roundNumber = 2
  /\ isLeftNeighbor(turn, "B", "A")
  /\ isRightNeighbor(turn, "B", "A")

\* C23: at most one interval is live at any time, and a live interval is
\* the one playbackInterval refers to.
C23_OneTimerHeldByTheObject ==
  /\ Cardinality(timers) <= 1
  /\ \A t \in timers : playbackInterval = <<t.id>>

\* C24: no step passes to onActionApplied an action that was passed before.
\* Every call of the handler goes with setting applied, which nothing but
\* the removal of the action undoes, so an action passed before is one whose
\* applied flag is set.
C24_HandlerCalledAtMostOncePerAction ==
  [][
     \A k \in 1..Len(handled') :
       \A i \in 1..Len(actions) :
         actions[i].id = handled'[k].id => ~actions[i].applied
    ]_vars

\* C27: in the states idle, paused and completed no interval is live, so no
\* tick can fire.
C27_TimerOnlyWhilePlaying ==
  state \in {"idle", "paused", "completed"} => timers = {}

\* C28: the cursor stays within 0..number of buffered actions.
C28_CursorWithinBuffer ==
  /\ 0 <= currentIndex
  /\ currentIndex <= Len(actions)

\* the ids of list that are not in acts, each once, in list order
RECURSIVE NewIds(_, _)
NewIds(acts, list) ==
  IF list = << >> THEN << >>
  ELSE IF \E i \in 1..Len(acts) : acts[i] = Head(list)
       THEN NewIds(acts, Tail(list))
       ELSE <<Head(list)>> \o NewIds(Append(acts, Head(list)), Tail(list))

\* C29: a buffer filled through addActions holds no id twice; a call that
\* evicts nothing appends the ids of its list that are not buffered, each
\* once and in list order, as unapplied actions, and a second call with the
\* same list then changes nothing.
C29_AddActionsSkipsBufferedIds ==
  /\ \A i, j \in 1..Len(actions) : actions[i].id = actions[j].id => i = j
  /\ \A list \in ActionLists :
       LET new == NewIds(Ids(actions), list)
           s1 == addActions(Self, list)
       IN  Len(actions) + Len(new) <= maxBufferSize
             => /\ s1.actions = actions \o
                     [k \in 1..Len(new) |-> [id |-> new[k], applied |-> FALSE]]
                /\ addActions(s1, list) = s1

\* addActions was called with the same id twice in its list on a buffer that
\* held another action, and added the id once
C29_Witness ==
  /\ lastOp.op = "addActions"
  /\ Len(lastOp.arg) = 2
  /\ lastOp.arg[1] = lastOp.arg[2]
  /\ Len(actions) = 2
  /\ actions[2].id = lastOp.arg[1]
  /\ actions[1].id # lastOp.arg[1]

\* the sources that are flagged as colour producers and list colour c
ColourProducers(sources, c) ==
  {i \in 1..Len(sources) :
     sources[i].canProduceColor /\ InSeq(sources[i].produces, c)}

\* C25: when the cost requires k mana of one colour c and nothing else and
\* the sources hold k or more producers of c, autoTapLands returns canPay
\* true and selects k different sources, each a producer of c tapped for c.
C25_EveryProducerIsConsidered ==
  autoTap # << >>
    => LET call == autoTap[1]
           result == call.result
       IN \A c \in ManaColor \ {"colorless", "generic"} :
            LET k == GetOr0(call.request.requiredColors, c)
            IN (/\ k > 0
                /\ call.request.genericCost = 0
                /\ SumValues(call.request.requiredColors) = k
                /\ Cardinality(ColourProducers(call.manaSources, c)) >= k)
                 => /\ result.canPay
                    /\ Len(result.sources) = k
                    /\ \A i \in 1..Len(result.sources) :
                         /\ result.sources[i].color = c
                         /\ result.sources[i].cardId
                              \in {call.manaSources[j].cardId :
                                     j \in ColourProducers(call.manaSources, c)}
                    /\ \A i, j \in 1..Len(result.sources) :
                         result.sources[i].cardId = result.sources[j].cardId
                           => i = j

\* a source that produces colourless mana and no colour
ColourlessOnly(source) ==
  /\ InSeq(source.produces, "colorless")
  /\ \A j \in 1..Len(source.produces) : source.produces[j] = "colorless"

\* C26: of the selections autoTapLands makes for the generic cost (those
\* after the ones for the required colours), one that taps a source which
\* is not a colourless-only producer comes only after every colourless-only
\* producer of the list has been selected.
C26_GenericTapsColourlessOnlyFirst ==
  (autoTap # << >>
     /\ autoTap[1].result.explanation # << >>
     /\ autoTap[1].result.explanation[1] # "Cannot produce required colors")
    => LET call == autoTap[1]
           result == call.result
           coloured == SumValues(call.request.requiredColors)
           SourceOf(i) ==
             CHOOSE src \in {call.manaSources[j] :
                               j \in 1..Len(call.manaSources)} :
               src.cardId = result.sources[i].cardId
       IN \A i \in (coloured + 1)..Len(result.sources) :
            ~ColourlessOnly(SourceOf(i))
              => \A j \in 1..Len(call.manaSources) :
                   ColourlessOnly(call.manaSources[j])
                     => \E m \in 1..(i - 1) :
                          result.sources[m].cardId
                            = call.manaSources[j].cardId

\* two lists hold the same ids, each as often
SameIds(a, b) ==
  /\ Len(a) = Len(b)
  /\ \A i \in 1..Len(a) : Occurrences(a, a[i]) = Occurrences(b, a[i])
  /\ \A i \in 1..Len(b) : Occurrences(a, b[i]) = Occurrences(b, b[i])

\* C21: for two or more players and each turn order type, the order that
\* createTurnOrder returns holds the ids it was given, each as often as it
\* was given, and so is as long as the input; with "clockwise" it is the
\* input itself.  "clockwise" and "random" always return an order; "custom"
\* returns the supplied order when that is an arrangement of the players and
\* fails with InvalidTurnOrder, returning no order, only when it is not.
C21_TurnOrderIsAPermutation ==
  \A c \in {turnOrderCall[i] : i \in 1..Len(turnOrderCall)} :
    /\ c.result.error = << >> =>
         /\ SameIds(c.result.turnOrder, c.playerIds)
         /\ Len(c.result.turnOrder) = Len(c.playerIds)
    /\ c.turnOrderType = "clockwise" =>
         c.result.error = << >> /\ c.result.turnOrder = c.playerIds
    /\ c.turnOrderType = "random" => c.result.error = << >>
    /\ c.turnOrderType = "custom" =>
         IF SameIds(c.customOrder, c.playerIds)
         THEN c.result.error = << >> /\ c.result.turnOrder = c.customOrder
         ELSE c.result.error = <<"InvalidTurnOrder">>

\* a shuffle of three or more players has returned an order that differs
\* from the input
C21_Witness ==
  /\ turnOrderCall # << >>
  /\ turnOrderCall[1].turnOrderType = "random"
  /\ Len(turnOrderCall[1].playerIds) >= 3
  /\ turnOrderCall[1].result.error = << >>
  /\ turnOrderCall[1].result.turnOrder # turnOrderCall[1].playerIds

\* the item of a non-empty stack that was pushed last
LastPushed(stk) ==
  CHOOSE item \in {stk[i] : i \in 1..Len(stk)} :
    \A i \in 1..Len(stk) : stk[i].timestamp <= item.timestamp

\* the items StackDisplay marks as top
ShownAsTop(stk, expanded) ==
  {StackDisplay(stk, expanded)[k].item :
     k \in {j \in 1..Len(StackDisplay(stk, expanded)) :
              StackDisplay(stk, expanded)[j].isTop}}

At(event) == {i \in 1..Len(wrapLog) : wrapLog[i] = event}

\* C30: withAutoSaveAfter starts the save only after the action has
\* returned, and never when the action threw or there was no game state;
\* withAutoSaveBefore starts the action only after the save it started has
\* returned; and when the call of either is over, the action has run exactly
\* once and the call settled as the action did, with its result.
C30_SaveOrderedAndActionRunsOnce ==
  \A w \in {wrapped[i] : i \in 1..Len(wrapped)} :
    /\ w.kind = "withAutoSaveAfter" =>
         /\ \A i \in At("save starts") : \E j \in At("action returns") : j < i
         /\ At("action throws") # {} => At("save starts") = {}
         /\ At("game state read") = {} => At("save starts") = {}
    /\ w.kind = "withAutoSaveBefore" =>
         \A i \in At("action starts") :
           /\ \A j \in At("save starts") : j < i
           /\ \A j \in At("save starts") :
                \E k \in At("save returns") : j < k /\ k < i
    /\ wrapPc = "done" =>
         /\ Cardinality(At("action starts")) = 1
         /\ \/ At("action returns") # {}
                 /\ wrapResult = <<Fulfilled("result of the action")>>
            \/ At("action throws") # {}
                 /\ wrapResult = <<[status |-> "rejected",
                                     value |-> "error of the action"]>>

TypeOK ==
  /\ state \in ReplayState
  /\ speed \in ReplaySpeed
  /\ Len(actions) <= MaxBufferSize
====
